---- MODULE Spec2Model ----
(***************************************************************************)
(* A model of pdf-ninja's document reconstruction pipeline:                *)
(*   - PdfBuilder.build_parsed_pdf / _sort_elements  (builders/parsed_pdf) *)
(*   - PdfPage.stringify / ParsedPdf.stringify       (dataclasses)         *)
(*   - CamelotExtractor.extract / _dedupe_by_bbox / _create_elements /     *)
(*     _iou                                          (extractors/table.py) *)
(*                                                                         *)
(* Conventions.  Python None and the empty list / empty string are both    *)
(* modelled by the empty sequence <<>> wherever the code only tests        *)
(* truthiness (`if el.bbox`, `el.content or ""`, `if not element_dict`).   *)
(* A str is a sequence of one-character strings.  A dict is a function     *)
(* whose DOMAIN is the key set.  Python sequences are 0-based, TLA+        *)
(* sequences 1-based: bbox[1] of the code is bbox[2] here.                 *)
(***************************************************************************)
EXTENDS Integers, Sequences, FiniteSets, TLC

VARIABLES
    pc,             \* position of the modelled call sequence
    extracted,      \* ExtractedElements handed to PdfBuilder
    parsed,         \* the ParsedPdf returned by build_parsed_pdf / given to stringify
    pdf_page,       \* the PdfPage given to PdfPage.stringify
    call,           \* arguments of the last call
    out,            \* result of the last call: what it returned, or that it raised
    camelot_tables, \* ctx.camelot_tables: [lattice, stream] lists of detections
    deduplicated,   \* _dedupe_by_bbox(lattice + stream)
    rededuped,      \* _dedupe_by_bbox applied to its own output
    results,        \* ElementsByPage returned by CamelotExtractor.extract
    b1, b2,         \* arguments of _iou
    iou             \* results of _iou on (b1,b2), (b2,b1), (b1,b1)

vars == <<pc, extracted, parsed, pdf_page, call, out, camelot_tables, deduplicated,
          rededuped, results, b1, b2, iou>>

(***************************************************************************)
(* Bounds of the model.                                                    *)
(***************************************************************************)
MaxPage == 2        \* page numbers are 1..MaxPage
MaxElems == 3       \* elements per document handed to the assembler
MaxDocElems == 3    \* elements per document handed to ParsedPdf.stringify
MaxPageElems == 3   \* elements per page handed to PdfPage.stringify
MaxTables == 3      \* table detections per camelot TableList
MaxCoord == 2       \* coordinates of the boxes given to _iou are 0..MaxCoord

Pages == 1..MaxPage

None == <<>>

(***************************************************************************)
(* Python's tuple comparison and the builtin sorted() (stable).            *)
(* A sort key component is a number or float("inf").                       *)
(***************************************************************************)
Fin(v) == [inf |-> FALSE, v |-> v]
Inf == [inf |-> TRUE, v |-> 0]

NumLT(a, b) == IF a.inf THEN FALSE ELSE (b.inf \/ a.v < b.v)

RECURSIVE TupleLT(_, _)
TupleLT(k1, k2) ==
    IF k1 = <<>> \/ k2 = <<>> THEN Len(k1) < Len(k2)
    ELSE IF Head(k1) = Head(k2) THEN TupleLT(Tail(k1), Tail(k2))
    ELSE NumLT(Head(k1), Head(k2))

\* insert index i into the sorted index list, behind every index whose key
\* is not greater (stability)
RECURSIVE InsertIdx(_, _, _)
InsertIdx(sortedIdx, i, keys) ==
    IF sortedIdx = <<>> THEN <<i>>
    ELSE IF TupleLT(keys[i], keys[Head(sortedIdx)]) THEN <<i>> \o sortedIdx
    ELSE <<Head(sortedIdx)>> \o InsertIdx(Tail(sortedIdx), i, keys)

RECURSIVE SortIdx(_, _)
SortIdx(keys, n) ==
    IF n = 0 THEN <<>> ELSE InsertIdx(SortIdx(keys, n - 1), n, keys)

\* sorted(seq, key=...), keys[i] being the key of seq[i]
PySorted(seq, keys) ==
    LET idx == SortIdx(keys, Len(seq))
    IN  [i \in 1..Len(seq) |-> seq[idx[i]]]

RECURSIVE SetToSortedSeq(_)
SetToSortedSeq(S) ==
    IF S = {} THEN <<>>
    ELSE LET m == CHOOSE x \in S : \A y \in S : x <= y
         IN  <<m>> \o SetToSortedSeq(S \ {m})

(***************************************************************************)
(* dataclasses.PdfElement.  `id` is the object's identity: the extractor   *)
(* (1 text, 2 tables, 3 images, 4 figures) that created it, the page key   *)
(* it was listed under and its position in that list.                      *)
(***************************************************************************)
ElementTypes == <<"text", "table", "image", "figure">>

PdfElement(type, page, bbox, id) ==
    [type |-> type, page |-> page, order |-> -1, content |-> None,
     rows |-> None, bbox |-> bbox, meta |-> [caption |-> None], id |-> id]

\* Bounding boxes the extractors of the assembler model attach to elements.
AsmBoxes == {None, <<0, 100, 10, 120>>, <<50, 100, 60, 120>>, <<50, 50, 60, 70>>}

(***************************************************************************)
(* PdfBuilder                                                              *)
(***************************************************************************)
\* the key with the left edge left out
SortKeyTopOnly(el) ==
    << IF el.bbox # <<>> THEN Fin(el.bbox[2]) ELSE Inf >>

\* the key with a missing bbox ordered before every box
SortKeyNoneFirst(el) ==
    << IF el.bbox # <<>> THEN Fin(el.bbox[2]) ELSE Fin(-1),
       IF el.bbox # <<>> THEN Fin(el.bbox[1]) ELSE Fin(-1) >>

\* key=lambda el: (el.bbox[1] if el.bbox else inf, el.bbox[0] if el.bbox else inf)
SortKey(el) ==
    << IF el.bbox # <<>> THEN Fin(el.bbox[2]) ELSE Inf,
       IF el.bbox # <<>> THEN Fin(el.bbox[1]) ELSE Inf >>

SortElements(elements) ==
    PySorted(elements, [i \in 1..Len(elements) |-> SortKey(elements[i])])

\* enumerate(sorted_elements, start=1)
AssignOrderFromOne(sorted_elements) ==
    [i \in 1..Len(sorted_elements) |-> [sorted_elements[i] EXCEPT !.order = i]]

\* for order, el in enumerate(sorted_elements): el.order = order
AssignOrder(sorted_elements) ==
    [i \in 1..Len(sorted_elements) |-> [sorted_elements[i] EXCEPT !.order = i - 1]]

ListOf(element_dict, p) ==
    IF p \in DOMAIN element_dict THEN element_dict[p] ELSE <<>>

\* the text mapping extended into page_map a second time after the figures
PageMapTextTwice(ex) ==
    LET keys == DOMAIN ex.text \cup DOMAIN ex.tables
                \cup DOMAIN ex.images \cup DOMAIN ex.figures
    IN  [p \in keys |-> ListOf(ex.text, p) \o ListOf(ex.tables, p)
                        \o ListOf(ex.images, p) \o ListOf(ex.figures, p)
                        \o ListOf(ex.text, p)]

\* page_map.setdefault(page_num, []).extend(elements), over text, tables,
\* images, figures in that order
PageMap(ex) ==
    LET keys == DOMAIN ex.text \cup DOMAIN ex.tables
                \cup DOMAIN ex.images \cup DOMAIN ex.figures
    IN  [p \in keys |-> ListOf(ex.text, p) \o ListOf(ex.tables, p)
                        \o ListOf(ex.images, p) \o ListOf(ex.figures, p)]

PdfPage(page_number, elements) ==
    [page_number |-> page_number, elements |-> elements]

MetaSource(metadata) ==
    IF "source" \in DOMAIN metadata THEN metadata.source ELSE ""

BuildParsedPdf(ex) ==
    LET page_map == PageMap(ex)
        nums == SetToSortedSeq(DOMAIN page_map)
    IN  [source |-> MetaSource(ex.meta),
         metadata |-> ex.meta,
         pages |-> [i \in 1..Len(nums) |->
                      PdfPage(nums[i], AssignOrder(SortElements(page_map[nums[i]])))]]

\* The elements of `extracted` are the objects the pages hold: el.order = order
\* is seen through both.
OrderIn(doc, id) ==
    LET hit == UNION { { <<i, j>> : j \in { k \in 1..Len(doc.pages[i].elements) :
                                             doc.pages[i].elements[k].id = id } } :
                       i \in 1..Len(doc.pages) }
        ij == CHOOSE x \in hit : TRUE
    IN  doc.pages[ij[1]].elements[ij[2]].order

WithOrders(element_dict, doc) ==
    [p \in DOMAIN element_dict |->
        [i \in 1..Len(element_dict[p]) |->
            [element_dict[p][i] EXCEPT !.order = OrderIn(doc, element_dict[p][i].id)]]]

(***************************************************************************)
(* The per-type mappings an extractor can return: page number -> non-empty *)
(* list of elements (TextExtractor.extract and _create_elements add a key  *)
(* only together with an element).                                         *)
(***************************************************************************)
NumExtracted(ex) ==
    LET Count(d) == Cardinality(UNION {{p} \X (1..Len(d[p])) : p \in DOMAIN d})
    IN  Count(ex.text) + Count(ex.tables) + Count(ex.images) + Count(ex.figures)

\* an extractor's output written as the list of (page, bbox) of its elements
\* in page order: the mapping page -> elements of that page, in list order
DictOf(t, s) ==
    [p \in {s[i][1] : i \in DOMAIN s} |->
        LET sub == SelectSeq(s, LAMBDA x : x[1] = p)
        IN  [i \in 1..Len(sub) |->
                PdfElement(ElementTypes[t], p, sub[i][2], <<t, p, i>>)]]

\* every mapping of at most k elements of extractor t
ElementDicts(t, k) ==
    { DictOf(t, s) :
        s \in { q \in UNION {[1..n -> Pages \X AsmBoxes] : n \in 0..k} :
                  \A i \in 1..(Len(q) - 1) : q[i][1] <= q[i + 1][1] } }

NoExtracted ==
    [text |-> <<>>, tables |-> <<>>, images |-> <<>>, figures |-> <<>>,
     meta |-> [encrypted |-> FALSE]]

NoDoc == [source |-> "", metadata |-> [encrypted |-> FALSE], pages |-> <<>>]
NoPage == [page_number |-> 0, elements |-> <<>>]
NoCall == [include_tables |-> TRUE, include_images |-> FALSE]
NoOut == [raised |-> FALSE, value |-> <<>>]

(***************************************************************************)
(* Specification SpecAssemble: PdfNinja._extract collects the per-type     *)
(* mappings, PdfNinja._build_pdf assembles them.                           *)
(***************************************************************************)
OtherThanAssemble ==
    <<pdf_page, call, out, camelot_tables, deduplicated, rededuped, results, b1, b2, iou>>

InitAssemble ==
    /\ pc = "text"
    /\ extracted = NoExtracted
    /\ parsed = NoDoc
    /\ pdf_page = NoPage
    /\ call = NoCall
    /\ out = NoOut
    /\ camelot_tables = [lattice |-> <<>>, stream |-> <<>>]
    /\ deduplicated = <<>>
    /\ rededuped = <<>>
    /\ results = <<>>
    /\ b1 = None
    /\ b2 = None
    /\ iou = <<>>

TextExtract ==
    /\ pc = "text"
    /\ \E d \in ElementDicts(1, MaxElems - NumExtracted(extracted)) :
          extracted' = [extracted EXCEPT !.text = d]
    /\ pc' = "tables"
    /\ UNCHANGED <<parsed, OtherThanAssemble>>

TableExtract ==
    /\ pc = "tables"
    /\ \E d \in ElementDicts(2, MaxElems - NumExtracted(extracted)) :
          extracted' = [extracted EXCEPT !.tables = d]
    /\ pc' = "images"
    /\ UNCHANGED <<parsed, OtherThanAssemble>>

ImageExtract ==
    /\ pc = "images"
    /\ \E d \in ElementDicts(3, MaxElems - NumExtracted(extracted)) :
          extracted' = [extracted EXCEPT !.images = d]
    /\ pc' = "figures"
    /\ UNCHANGED <<parsed, OtherThanAssemble>>

FigureExtract ==
    /\ pc = "figures"
    /\ \E d \in ElementDicts(4, MaxElems - NumExtracted(extracted)) :
          extracted' = [extracted EXCEPT !.figures = d]
    /\ pc' = "meta"
    /\ UNCHANGED <<parsed, OtherThanAssemble>>

\* MetadataExtractor.extract_metadata never sets a "source" key
MetaExtract ==
    /\ pc = "meta"
    /\ extracted' = [extracted EXCEPT !.meta = [encrypted |-> FALSE, page_count |-> MaxPage]]
    /\ pc' = "build"
    /\ UNCHANGED <<parsed, OtherThanAssemble>>

Build ==
    /\ pc = "build"
    /\ parsed' = BuildParsedPdf(extracted)
    /\ extracted' = [extracted EXCEPT
                       !.text = WithOrders(extracted.text, parsed'),
                       !.tables = WithOrders(extracted.tables, parsed'),
                       !.images = WithOrders(extracted.images, parsed'),
                       !.figures = WithOrders(extracted.figures, parsed')]
    /\ pc' = "built"
    /\ UNCHANGED OtherThanAssemble

NextAssemble ==
    \/ TextExtract
    \/ TableExtract
    \/ ImageExtract
    \/ FigureExtract
    \/ MetaExtract
    \/ Build

SpecAssemble == InitAssemble /\ [][NextAssemble]_vars

(***************************************************************************)
(* str.strip, str.join                                                     *)
(***************************************************************************)
\* Only({e : x \in {v}}) is e with x standing for the value of v, which is
\* computed once however often e reads it
Only(S) == CHOOSE x \in S : TRUE

IsSpace(c) == c \in {" ", "\n", "\t", "\r"}

RECURSIVE LStrip(_)
LStrip(s) == IF s # <<>> /\ IsSpace(Head(s)) THEN LStrip(Tail(s)) ELSE s

RECURSIVE RStrip(_)
RStrip(s) ==
    IF s # <<>> /\ IsSpace(s[Len(s)]) THEN RStrip(SubSeq(s, 1, Len(s) - 1)) ELSE s

Strip(s) == Only({RStrip(l) : l \in {LStrip(s)}})

RECURSIVE Join(_, _)
Join(sep, parts) ==
    IF parts = <<>> THEN <<>>
    ELSE IF Len(parts) = 1 THEN parts[1]
    ELSE parts[1] \o sep \o Join(sep, Tail(parts))

RECURSIVE Flatten(_)
Flatten(lists) ==
    IF lists = <<>> THEN <<>> ELSE Head(lists) \o Flatten(Tail(lists))

\* a table cell: a str or None (join() raises TypeError on None)
Cell(s) == [none |-> FALSE, s |-> s]
NoneCell == [none |-> TRUE, s |-> <<>>]

BLANK_LINE == <<"\n", "\n">>
ROW_SEP == <<" ", "|", " ">>
IMAGE_OPEN == <<"[", "I", "m", "a", "g", "e", ":", " ">>
PAGE_BREAK ==
    <<"\n", "\n", "-", "-", "-", " ", "P", "A", "G", "E", " ",
      "B", "R", "E", "A", "K", " ", "-", "-", "-", "\n", "\n">>

(***************************************************************************)
(* PdfPage.stringify and ParsedPdf.stringify.  A result is                 *)
(* [raised, value]: raised when " | ".join(r) meets a None cell.           *)
(***************************************************************************)
\* " | ".join(r) for r in el.rows raises
RowsRaise(el) ==
    \E i \in 1..Len(el.rows) : \E j \in 1..Len(el.rows[i]) : el.rows[i][j].none

ElementRaises(el, include_tables) ==
    el.type = "table" /\ include_tables /\ el.rows # None /\ RowsRaise(el)

\* what one pass of the loop body appends to `lines`: nothing or one line
ElementLines(el, include_tables, include_images) ==
    IF el.type = "text" THEN <<el.content>>
    ELSE IF el.type = "table" /\ include_tables THEN
        IF el.rows # None THEN
            << Join(<<"\n">>, [i \in 1..Len(el.rows) |->
                      Join(ROW_SEP, [j \in 1..Len(el.rows[i]) |-> el.rows[i][j].s])]) >>
        ELSE IF el.content # None THEN <<el.content>>
        ELSE <<>>
    ELSE IF el.type \in {"image", "figure"} /\ include_images THEN
        IF el.meta.caption # None THEN << IMAGE_OPEN \o el.meta.caption \o <<"]">> >>
        ELSE <<>>
    ELSE <<>>

RenderElements(els, include_tables, include_images) ==
    IF \E i \in 1..Len(els) : ElementRaises(els[i], include_tables)
    THEN [raised |-> TRUE, value |-> <<>>]
    ELSE [raised |-> FALSE,
          value |-> Strip(Join(BLANK_LINE,
                      Flatten([i \in 1..Len(els) |->
                                 ElementLines(els[i], include_tables, include_images)])))]

\* the loop over self.elements as listed
PageStringifyUnsorted(pg, include_tables, include_images) ==
    RenderElements(pg.elements, include_tables, include_images)

\* for el in sorted(self.elements, key=lambda e: e.order): ...
PageStringify(pg, include_tables, include_images) ==
    RenderElements(
        PySorted(pg.elements, [i \in 1..Len(pg.elements) |-> <<Fin(pg.elements[i].order)>>]),
        include_tables, include_images)

RenderPages(pages, include_tables, include_images) ==
    LET page_texts == [i \in 1..Len(pages) |->
                          PageStringify(pages[i], include_tables, include_images)]
    IN  IF \E i \in 1..Len(pages) : page_texts[i].raised
        THEN [raised |-> TRUE, value |-> <<>>]
        ELSE [raised |-> FALSE,
              value |-> Join(PAGE_BREAK,
                          SelectSeq([i \in 1..Len(pages) |-> page_texts[i].value],
                                    LAMBDA t : t # <<>>))]

\* the comprehension over self.pages as listed
DocStringifyUnsorted(doc, include_tables, include_images) ==
    RenderPages(doc.pages, include_tables, include_images)

\* for page in sorted(self.pages, key=lambda p: p.page_number)
DocStringify(doc, include_tables, include_images) ==
    RenderPages(
        PySorted(doc.pages, [i \in 1..Len(doc.pages) |-> <<Fin(doc.pages[i].page_number)>>]),
        include_tables, include_images)

(***************************************************************************)
(* Element payloads of the stringify models.                               *)
(***************************************************************************)
WithPayload(type, content, rows, caption) ==
    [type |-> type, page |-> 0, order |-> -1, content |-> content,
     rows |-> rows, bbox |-> None, meta |-> [caption |-> caption], id |-> <<>>]

TextA == WithPayload("text", <<"a">>, None, None)
TextB == WithPayload("text", <<"b">>, None, None)
TextNone == WithPayload("text", None, None, None)
TableRows ==
    WithPayload("table", None, <<<<Cell(<<"a">>), Cell(<<"b">>)>>, <<Cell(<<"a">>)>>>>, None)
TableContent == WithPayload("table", <<"b">>, None, None)
ImageCaption == WithPayload("image", None, None, <<"a">>)
FigureNoCaption == WithPayload("figure", None, None, None)

PagePayloads ==
    {TextA, TextB, TextNone, TableRows, TableContent, ImageCaption, FigureNoCaption}

DocPayloads == {TextA, TextB, TextNone, TableRows, ImageCaption}

Perms(n) == {f \in [1..n -> 1..n] : \A i, j \in 1..n : f[i] = f[j] => i = j}

\* a page as the assembler leaves it (ordinal = reading position), its
\* element list then arranged by the permutation f
ArrangedPage(num, reading, f) ==
    PdfPage(num, [i \in 1..Len(reading) |->
                    [reading[f[i]] EXCEPT !.order = f[i] - 1, !.page = num]])

\* a document from the list s of (page number, payload), grouped by page,
\* the pages stored in the order nums
DocOf(s, nums) ==
    [source |-> "", metadata |-> [encrypted |-> FALSE],
     pages |-> [k \in 1..Len(nums) |->
                  LET sub == SelectSeq(s, LAMBDA x : x[1] = nums[k])
                  IN  ArrangedPage(nums[k], [i \in 1..Len(sub) |-> sub[i][2]],
                                   [i \in 1..Len(sub) |-> i])]]

(***************************************************************************)
(* Specification SpecPage: PdfPage.stringify on a page.                    *)
(***************************************************************************)
InitPage ==
    /\ pc = "page"
    /\ \E n \in 0..MaxPageElems :
          \E reading \in [1..n -> PagePayloads] :
              \E f \in Perms(n) : pdf_page = ArrangedPage(1, reading, f)
    /\ extracted = NoExtracted
    /\ parsed = NoDoc
    /\ call = NoCall
    /\ out = NoOut
    /\ camelot_tables = [lattice |-> <<>>, stream |-> <<>>]
    /\ deduplicated = <<>>
    /\ rededuped = <<>>
    /\ results = <<>>
    /\ b1 = None
    /\ b2 = None
    /\ iou = <<>>

PageStringifyCall ==
    /\ pc = "page"
    /\ \E include_tables, include_images \in BOOLEAN :
          /\ call' = [include_tables |-> include_tables, include_images |-> include_images]
          /\ out' = PageStringify(pdf_page, include_tables, include_images)
    /\ pc' = "page_done"
    /\ UNCHANGED <<extracted, parsed, pdf_page, camelot_tables, deduplicated,
                   rededuped, results, b1, b2, iou>>

NextPage == PageStringifyCall

SpecPage == InitPage /\ [][NextPage]_vars

(***************************************************************************)
(* Specification SpecDoc: ParsedPdf.stringify on a document whose pages    *)
(* sit in any order in ParsedPdf.pages.                                    *)
(***************************************************************************)
InitDoc ==
    /\ pc = "doc"
    /\ \E n \in 0..MaxDocElems :
          \E s \in [1..n -> Pages \X DocPayloads] :
              /\ \A i \in 1..(n - 1) : s[i][1] <= s[i + 1][1]
              /\ LET present == {s[i][1] : i \in 1..n}
                 IN  \E nums \in [1..Cardinality(present) -> present] :
                        /\ \A i, j \in DOMAIN nums : nums[i] = nums[j] => i = j
                        /\ parsed = DocOf(s, nums)
    /\ extracted = NoExtracted
    /\ pdf_page = NoPage
    /\ call = NoCall
    /\ out = NoOut
    /\ camelot_tables = [lattice |-> <<>>, stream |-> <<>>]
    /\ deduplicated = <<>>
    /\ rededuped = <<>>
    /\ results = <<>>
    /\ b1 = None
    /\ b2 = None
    /\ iou = <<>>

DocStringifyCall ==
    /\ pc = "doc"
    /\ \E include_tables, include_images \in BOOLEAN :
          /\ call' = [include_tables |-> include_tables, include_images |-> include_images]
          /\ out' = DocStringify(parsed, include_tables, include_images)
    /\ pc' = "doc_done"
    /\ UNCHANGED <<extracted, parsed, pdf_page, camelot_tables, deduplicated,
                   rededuped, results, b1, b2, iou>>

NextDoc == DocStringifyCall

SpecDoc == InitDoc /\ [][NextDoc]_vars

(***************************************************************************)
(* CamelotExtractor (extractors/table.py).  A float that _iou returns is   *)
(* the fraction <<numerator, denominator>> in lowest terms; on the small   *)
(* integers of the model float division and comparison are exact.          *)
(***************************************************************************)
RECURSIVE Gcd(_, _)
Gcd(a, b) == IF b = 0 THEN a ELSE Gcd(b, a % b)

Abs(x) == IF x < 0 THEN -x ELSE x
Max(a, b) == IF a > b THEN a ELSE b
Min(a, b) == IF a < b THEN a ELSE b

\* n / d for d # 0
Frac(n, d) ==
    LET g == Gcd(Abs(n), Abs(d))
        sgn == IF d < 0 THEN -1 ELSE 1
    IN  <<sgn * (n \div g), sgn * (d \div g)>>

Zero == <<0, 1>>
One == <<1, 1>>

FracGT(x, y) == x[1] * y[2] > y[1] * x[2]

\* config.constants.TABLE_IOU_THRESHOLD (0.6)
TABLE_IOU_THRESHOLD == <<3, 5>>

\* config.constants.TABLE_MAX_CELL_LEN; no modelled cell is longer
TABLE_MAX_CELL_LEN == 1

\* _iou with the intersection counted twice in the union
IouUnionNoOverlap(bb1, bb2) ==
    IF bb1 = None \/ bb2 = None THEN Zero
    ELSE LET x0 == Max(bb1[1], bb2[1])
             y0 == Max(bb1[2], bb2[2])
             x1 == Min(bb1[3], bb2[3])
             y1 == Min(bb1[4], bb2[4])
             inter_area == Max(0, x1 - x0) * Max(0, y1 - y0)
             b1_area == (bb1[3] - bb1[1]) * (bb1[4] - bb1[2])
             b2_area == (bb2[3] - bb2[1]) * (bb2[4] - bb2[2])
             union_area == b1_area + b2_area
         IN  IF union_area # 0 THEN Frac(inter_area, union_area) ELSE Zero

\* CamelotExtractor._iou
Iou(bb1, bb2) ==
    IF bb1 = None \/ bb2 = None THEN Zero
    ELSE LET x0 == Max(bb1[1], bb2[1])
             y0 == Max(bb1[2], bb2[2])
             x1 == Min(bb1[3], bb2[3])
             y1 == Min(bb1[4], bb2[4])
             inter_area == Max(0, x1 - x0) * Max(0, y1 - y0)
             b1_area == (bb1[3] - bb1[1]) * (bb1[4] - bb1[2])
             b2_area == (bb2[3] - bb2[1]) * (bb2[4] - bb2[2])
             union_area == b1_area + b2_area - inter_area
         IN  IF union_area # 0 THEN Frac(inter_area, union_area) ELSE Zero

\* _iou raises IndexError on a bbox of fewer than 4 coordinates
IouRaises(bb1, bb2) ==
    bb1 # None /\ bb2 # None /\ (Len(bb1) < 4 \/ Len(bb2) < 4)

\* index of the first kept detection t overlaps above the threshold, 0 if none
FirstDuplicate(t, unique) ==
    LET hits == {i \in 1..Len(unique) :
                    /\ ~IouRaises(t.bbox, unique[i].bbox)
                    /\ FracGT(Iou(t.bbox, unique[i].bbox), TABLE_IOU_THRESHOLD)}
    IN  IF hits = {} THEN 0 ELSE CHOOSE i \in hits : \A j \in hits : i <= j

\* the inner loop reaches a comparison that raises before it breaks
StepRaises(unique, t) ==
    /\ t.bbox # None
    /\ \E i \in 1..Len(unique) :
          /\ IouRaises(t.bbox, unique[i].bbox)
          /\ (FirstDuplicate(t, unique) = 0 \/ FirstDuplicate(t, unique) > i)

\* the loop body with the flavor preference reversed
DedupeStepPreferLattice(unique, t) ==
    IF t.bbox = None THEN unique
    ELSE LET duplicate_index == FirstDuplicate(t, unique)
         IN  IF duplicate_index = 0 THEN Append(unique, t)
             ELSE IF t.flavor = "lattice" /\ unique[duplicate_index].flavor = "stream"
                  THEN [unique EXCEPT ![duplicate_index] = t]
                  ELSE unique

\* one pass of the loop body of _dedupe_by_bbox
DedupeStep(unique, t) ==
    IF t.bbox = None THEN unique
    ELSE LET duplicate_index == FirstDuplicate(t, unique)
         IN  IF duplicate_index = 0 THEN Append(unique, t)
             ELSE IF t.flavor = "stream" /\ unique[duplicate_index].flavor = "lattice"
                  THEN [unique EXCEPT ![duplicate_index] = t]
                  ELSE unique

RECURSIVE DedupeFrom(_, _)
DedupeFrom(unique, tables) ==
    IF tables = <<>> THEN unique
    ELSE DedupeFrom(DedupeStep(unique, Head(tables)), Tail(tables))

\* CamelotExtractor._dedupe_by_bbox
DedupeByBbox(tables) == DedupeFrom(<<>>, tables)

RECURSIVE DedupeRaisesFrom(_, _)
DedupeRaisesFrom(unique, tables) ==
    IF tables = <<>> THEN FALSE
    ELSE \/ StepRaises(unique, Head(tables))
         \/ DedupeRaisesFrom(DedupeStep(unique, Head(tables)), Tail(tables))

\* _dedupe_by_bbox does not return: an exception of _iou leaves it
DedupeRaises(tables) == DedupeRaisesFrom(<<>>, tables)

\* cell.strip() if isinstance(cell, str) and cell.strip() else None
NormalizeCell(cell) == IF Strip(cell) # <<>> THEN Cell(Strip(cell)) ELSE NoneCell

NormalizeRows(df) ==
    [i \in 1..Len(df) |-> [j \in 1..Len(df[i]) |-> NormalizeCell(df[i][j])]]

CellTooLong(rows) ==
    \E i \in 1..Len(rows) : \E j \in 1..Len(rows[i]) :
        ~rows[i][j].none /\ Len(rows[i][j].s) > TABLE_MAX_CELL_LEN

\* the tables _create_elements turns into elements
Creatable(table) ==
    /\ table.bbox # None
    /\ Len(table.bbox) = 4
    /\ ~CellTooLong(NormalizeRows(table.df))

TableElement(table) ==
    [type |-> "table", page |-> table.page, order |-> -1, content |-> None,
     rows |-> NormalizeRows(table.df), bbox |-> table.bbox,
     meta |-> [source |-> "camelot", flavor |-> table.flavor, page_area |-> table.bbox],
     id |-> table.id]

\* CamelotExtractor._create_elements
CreateElements(tables) ==
    LET made == SelectSeq(tables, Creatable)
    IN  [p \in {made[i].page : i \in 1..Len(made)} |->
            LET on == SelectSeq(made, LAMBDA t : t.page = p)
            IN  [i \in 1..Len(on) |-> TableElement(on[i])]]

(***************************************************************************)
(* Specification SpecTables: CamelotExtractor.extract on a TableList, then *)
(* the merger run again on its own output.                                 *)
(***************************************************************************)
Flavors == {"lattice", "stream", "unknown"}

\* IOU 1/2 between the first two (not above the threshold); the third has
\* IOU 2/3 with the first and 5/6 with the second
DedupBoxes == {<<0, 0, 4, 1>>, <<1, 0, 6, 1>>, <<0, 0, 6, 1>>}

\* a _bbox that is not four coordinates
MalformedBbox == <<0, 0>>

\* the raw grid of every modelled detection: one row, a filled and a blank cell
RawDf == << << <<"a">>, <<" ">> >> >>

\* _dedupe_by_bbox drops a detection without _bbox before it reads anything
\* else of it, so one such detection stands for all of them; so does one
\* detection with a malformed _bbox
DetectionChoices ==
    (Pages \X DedupBoxes \X Flavors)
        \cup {<<1, None, "unknown">>, <<1, MalformedBbox, "unknown">>}

Detection(i, d) ==
    [id |-> i, page |-> d[1], bbox |-> d[2], flavor |-> d[3], df |-> RawDf]

Combined == camelot_tables.lattice \o camelot_tables.stream

\* extract reads only lattice + stream: the lattice list is taken to be the
\* leading detections that are not of flavor stream
LatticeLen(ts) ==
    LET stops == {i \in 1..Len(ts) : ts[i].flavor = "stream"}
    IN  IF stops = {} THEN Len(ts)
        ELSE (CHOOSE i \in stops : \A j \in stops : i <= j) - 1

InitTables ==
    /\ pc = "tables_in"
    /\ \E n \in 0..MaxTables :
          \E ds \in [1..n -> DetectionChoices] :
              LET ts == [i \in 1..n |-> Detection(i, ds[i])]
                  k == LatticeLen(ts)
              IN  camelot_tables = [lattice |-> SubSeq(ts, 1, k),
                                    stream |-> SubSeq(ts, k + 1, n)]
    /\ extracted = NoExtracted
    /\ parsed = NoDoc
    /\ pdf_page = NoPage
    /\ call = NoCall
    /\ out = NoOut
    /\ deduplicated = <<>>
    /\ rededuped = <<>>
    /\ results = <<>>
    /\ b1 = None
    /\ b2 = None
    /\ iou = <<>>

\* CamelotExtractor.extract; an exception of _dedupe_by_bbox is caught
\* nowhere in it and leaves extract with no result
Extract ==
    /\ pc = "tables_in"
    /\ IF Combined = <<>>
       THEN /\ deduplicated' = <<>>
            /\ results' = <<>>
            /\ out' = out
            /\ pc' = "extracted"
       ELSE IF DedupeRaises(Combined)
       THEN /\ deduplicated' = <<>>
            /\ results' = <<>>
            /\ out' = [raised |-> TRUE, value |-> <<>>]
            /\ pc' = "extract_raised"
       ELSE /\ deduplicated' = DedupeByBbox(Combined)
            /\ results' = CreateElements(deduplicated')
            /\ out' = out
            /\ pc' = "extracted"
    /\ UNCHANGED <<extracted, parsed, pdf_page, call, camelot_tables,
                   rededuped, b1, b2, iou>>

\* _dedupe_by_bbox on its own output
DedupeAgain ==
    /\ pc = "extracted"
    /\ rededuped' = DedupeByBbox(deduplicated)
    /\ pc' = "rededuped"
    /\ UNCHANGED <<extracted, parsed, pdf_page, call, out, camelot_tables,
                   deduplicated, results, b1, b2, iou>>

NextTables ==
    \/ Extract
    \/ DedupeAgain

SpecTables == InitTables /\ [][NextTables]_vars

(***************************************************************************)
(* Specification SpecIou: _iou on two boxes of the data model              *)
(* (x1 >= x0, y1 >= y0) or None.                                           *)
(***************************************************************************)
IouBoxes ==
    {None} \cup {b \in (0..MaxCoord) \X (0..MaxCoord) \X (0..MaxCoord) \X (0..MaxCoord) :
                    b[3] >= b[1] /\ b[4] >= b[2]}

InitIou ==
    /\ pc = "iou_in"
    /\ b1 \in IouBoxes
    /\ b2 \in IouBoxes
    /\ iou = <<>>
    /\ extracted = NoExtracted
    /\ parsed = NoDoc
    /\ pdf_page = NoPage
    /\ call = NoCall
    /\ out = NoOut
    /\ camelot_tables = [lattice |-> <<>>, stream |-> <<>>]
    /\ deduplicated = <<>>
    /\ rededuped = <<>>
    /\ results = <<>>

ComputeIou ==
    /\ pc = "iou_in"
    /\ iou' = [ab |-> Iou(b1, b2), ba |-> Iou(b2, b1), aa |-> Iou(b1, b1)]
    /\ pc' = "iou_done"
    /\ UNCHANGED <<extracted, parsed, pdf_page, call, out, camelot_tables,
                   deduplicated, rededuped, results, b1, b2>>

NextIou == ComputeIou

SpecIou == InitIou /\ [][NextIou]_vars

(***************************************************************************)
(* TablePostprocessor (extractors/table/_postprocessor.py): the cell       *)
(* predicates.  A regular expression is run as the set of positions its    *)
(* match can have reached: position p stands before character s[p], and    *)
(* Len(s) + 1 is the end of the string.                                    *)
(***************************************************************************)
DIGITS == <<"0", "1", "2", "3", "4", "5", "6", "7", "8", "9">>
LOWER ==
    <<"a", "b", "c", "d", "e", "f", "g", "h", "i", "j", "k", "l", "m",
      "n", "o", "p", "q", "r", "s", "t", "u", "v", "w", "x", "y", "z">>
UPPER ==
    <<"A", "B", "C", "D", "E", "F", "G", "H", "I", "J", "K", "L", "M",
      "N", "O", "P", "Q", "R", "S", "T", "U", "V", "W", "X", "Y", "Z">>

\* a list comprehension: the list with all its items computed
List(f) == f \o <<>>

DIGIT_SET == {DIGITS[i] : i \in DOMAIN DIGITS}
LOWER_SET == {LOWER[i] : i \in DOMAIN LOWER}
UPPER_SET == {UPPER[i] : i \in DOMAIN UPPER}

IsDigit(c) == c \in DIGIT_SET
IsAlpha(c) == c \in LOWER_SET \/ c \in UPPER_SET

\* str.lower on ASCII text
LowerChar(c) ==
    IF c \in UPPER_SET THEN LOWER[CHOOSE i \in DOMAIN UPPER : UPPER[i] = c] ELSE c

Lower(s) == List([i \in 1..Len(s) |-> LowerChar(s[i])])

\* re.search of a literal word
Contains(s, w) ==
    \E i \in 1..(Len(s) - Len(w) + 1) : SubSeq(s, i, i + Len(w) - 1) = w

\* p+1 for every position of P that stands before a character of class Cls
StepOver(s, P, Cls) == {p + 1 : p \in {q \in P : q <= Len(s) /\ s[q] \in Cls}}

SPACES == {" ", "\n", "\t", "\r"}
SIGNS == {"(", "+", "-"}
GROUP_SEPS == {",", " "}
UNITS == {"%", "$"} \cup LOWER_SET \cup UPPER_SET

\* X* for a character class
RECURSIVE StarOver(_, _, _)
StarOver(s, P, Cls) ==
    Only({ IF Q = P0 THEN P0 ELSE StarOver(s, Q, Cls) :
             <<P0, Q>> \in {<<P0, P0 \cup StepOver(s, P0, Cls)>> : P0 \in {P}} })

\* \d{3}
ThreeDigits(s, P) == StepOver(s, StepOver(s, StepOver(s, P, DIGIT_SET), DIGIT_SET), DIGIT_SET)

\* (?:[, ]\d{3})*
RECURSIVE ThousandsGroups(_, _)
ThousandsGroups(s, P) ==
    Only({ IF Q = P0 THEN P0 ELSE ThousandsGroups(s, Q) :
             <<P0, Q>> \in {<<P0, P0 \cup ThreeDigits(s, StepOver(s, P0, GROUP_SEPS))>> :
                               P0 \in {P}} })

\* \d{1,3}
OneToThreeDigits(s, P) ==
    Only({ Only({ d1 \cup d2 \cup StepOver(s, d2, DIGIT_SET) :
                    d2 \in {StepOver(s, d1, DIGIT_SET)} }) :
             d1 \in {StepOver(s, P, DIGIT_SET)} })

\* \d+
DigitsPlus(s, P) == StarOver(s, StepOver(s, P, DIGIT_SET), DIGIT_SET)

\* _NUMERIC_RE.match(x) is not None
NumericReMatch(x) ==
    \E start \in {StarOver(x, {1}, SPACES)} :
    \E sign \in {start \cup StepOver(x, start, SIGNS)} :
    \E number \in {ThousandsGroups(x, OneToThreeDigits(x, sign)) \cup DigitsPlus(x, sign)} :
    \E decimal \in {number \cup DigitsPlus(x, StepOver(x, number, {"."}))} :
    \E units \in {decimal \cup StarOver(x, decimal \cup StepOver(x, decimal, SPACES), UNITS)} :
    \E tail \in {StarOver(x, units, SPACES)} :
        (Len(x) + 1) \in tail \/ (Len(x) \in tail /\ x # <<>> /\ x[Len(x)] = "\n")

\* the words of _HEADER_TOKEN_HINTS; "notes?" finds what "note" finds and
\* "highlights?" what "highlight" finds
HEADER_TOKEN_HINTS ==
    { <<"y", "e", "a", "r">>,
      <<"q", "u", "a", "r", "t", "e", "r">>,
      <<"t", "h", "r", "e", "e">>,
      <<"m", "o", "n", "t", "h", "s">>,
      <<"e", "n", "d", "e", "d">>,
      <<"n", "o", "t", "e">>,
      <<"h", "i", "g", "h", "l", "i", "g", "h", "t">>,
      <<"c", "u", "r", "r", "e", "n", "c", "y">>,
      <<"u", "s", "d">>,
      <<"c", "a", "d">>,
      <<"u", "n", "a", "u", "d", "i", "t", "e", "d">>,
      <<"a", "u", "d", "i", "t", "e", "d">> }

\* TablePostprocessor._is_nonempty
IsNonempty(x) == x # <<>> /\ Strip(x) # <<>>

\* TablePostprocessor._is_numeric_like
IsNumericLike(x) ==
    IF x = <<>> \/ Strip(x) = <<>> THEN FALSE ELSE NumericReMatch(x)

\* TablePostprocessor._has_header_tokens
HasHeaderTokens(x) ==
    IF x = <<>> THEN FALSE
    ELSE \E l \in {Lower(x)} : \E w \in HEADER_TOKEN_HINTS : Contains(l, w)

IsTokenChar(c) == IsAlpha(c) \/ IsDigit(c) \/ c \in {"%", "$"}

\* TablePostprocessor._tokenize, as the set its callers make of the list:
\* the maximal runs of token characters of s.lower()
Tokenize(s) ==
    UNION { LET starts == {i \in 1..Len(l) :
                            IsTokenChar(l[i]) /\ (i = 1 \/ ~IsTokenChar(l[i - 1]))}
                end(i) == CHOOSE j \in i..Len(l) :
                            /\ \A k \in i..j : IsTokenChar(l[k])
                            /\ (j = Len(l) \/ ~IsTokenChar(l[j + 1]))
            IN  {SubSeq(l, i, end(i)) : i \in starts} :
            l \in {Lower(s)} }

\* TablePostprocessor._jaccard
Jaccard(a, b) ==
    IF a = {} \/ b = {} THEN Zero
    ELSE Frac(Cardinality(a \cap b), Cardinality(a \cup b))

\* re.sub(r"\s{2,}", " ", s)
RECURSIVE CollapseSpaces(_)
CollapseSpaces(s) ==
    IF s = <<>> THEN <<>>
    ELSE IF Len(s) >= 2 /\ IsSpace(s[1]) /\ IsSpace(s[2])
         THEN <<" ">> \o CollapseSpaces(LStrip(s))
         ELSE <<s[1]>> \o CollapseSpaces(Tail(s))

\* norm of TablePostprocessor._normalize_df on a str cell or None
Norm(x) ==
    Only({ CollapseSpaces(stripped) :
             stripped \in {Strip(List([i \in 1..Len(x) |->
                                          IF x[i] \in {"\r", "\n"} THEN " " ELSE x[i]]))} })

(***************************************************************************)
(* TablePostprocessor: row features, header block, split points, chunks.   *)
(* A DataFrame is the sequence of its rows in positional order, each row   *)
(* carrying its index label; df.iloc[i] of the code is df[i + 1] here and  *)
(* the row indices the code computes (header rows, split points) keep the  *)
(* code's 0-based values.  A float is an exact fraction, as in _iou.       *)
(***************************************************************************)
FracAdd(x, y) == Frac(x[1] * y[2] + y[1] * x[2], x[2] * y[2])
FracSub(x, y) == Frac(x[1] * y[2] - y[1] * x[2], x[2] * y[2])
FracMul(x, y) == Frac(x[1] * y[1], x[2] * y[2])
FracGE(x, y) == ~FracGT(y, x)
FracAbs(x) == <<Abs(x[1]), x[2]>>

SetMin(S) == CHOOSE x \in S : \A y \in S : x <= y
SetMax(S) == CHOOSE x \in S : \A y \in S : x >= y

\* defaults of TablePostprocessor.__init__
min_cols_for_header == 2
numeric_ratio_header_max == <<7, 20>>
header_token_boost == <<3, 20>>
gap_multiplier == <<8, 5>>
reheader_allow_numeric_ratio_max == <<1, 2>>

\* pd.DataFrame of a list of rows: a RangeIndex labels the rows 0..n-1
DataFrame(rows) == List([i \in 1..Len(rows) |-> [label |-> i - 1, cells |-> rows[i]]])

\* TablePostprocessor._normalize_df
NormalizeDf(df) ==
    List([i \in 1..Len(df) |->
            [label |-> df[i].label,
             cells |-> List([j \in 1..Len(df[i].cells) |-> Norm(df[i].cells[j])])]])

NonemptyCols(cells) == Cardinality({j \in DOMAIN cells : IsNonempty(cells[j])})

\* one entry of numeric_mask.mean(axis=1)
NumericRatio(cells) ==
    Frac(Cardinality({j \in DOMAIN cells : IsNumericLike(cells[j])}), Len(cells))

\* one entry of nonempty_mask.mean(axis=1)
NonemptyRatio(cells) == Frac(NonemptyCols(cells), Len(cells))

\* one entry of header_mask.any(axis=1)
HeaderHint(cells) == \E j \in DOMAIN cells : HasHeaderTokens(cells[j])

\* one entry of header_score
HeaderScore(cells) ==
    FracAdd(FracMul(FracSub(One, NumericRatio(cells)), NonemptyRatio(cells)),
            IF HeaderHint(cells) THEN header_token_boost ELSE Zero)

\* the for loop of _detect_header_block from row i on
RECURSIVE HeaderScan(_, _, _, _, _)
HeaderScan(df, header_score, numeric_ratio, i, rows) ==
    IF i >= Len(df) THEN rows
    ELSE IF NonemptyCols(df[i + 1].cells) < min_cols_for_header
         THEN HeaderScan(df, header_score, numeric_ratio, i + 1,
                         IF rows # <<>> THEN Append(rows, i) ELSE rows)
         ELSE IF \/ ~FracGT(numeric_ratio[i + 1], numeric_ratio_header_max)
                 \/ FracGE(header_score[i + 1], <<3, 5>>)
              THEN HeaderScan(df, header_score, numeric_ratio, i + 1, Append(rows, i))
              ELSE rows

\* trim trailing fully empty rows
RECURSIVE TrimEmptyRows(_, _)
TrimEmptyRows(df, rows) ==
    IF rows # <<>> /\ NonemptyCols(df[rows[Len(rows)] + 1].cells) = 0
    THEN TrimEmptyRows(df, SubSeq(rows, 1, Len(rows) - 1))
    ELSE rows

\* TablePostprocessor._detect_header_block
DetectHeaderBlock(df, header_score, numeric_ratio) ==
    TrimEmptyRows(df, HeaderScan(df, header_score, numeric_ratio, 0, <<>>))

\* TablePostprocessor._collapse_header: (body, header)
CollapseHeader(df, header_rows) ==
    IF header_rows = <<>> THEN [body |-> df, header |-> None]
    ELSE LET header_df == List([k \in 1..Len(header_rows) |-> df[header_rows[k] + 1]])
             column(col) == List([k \in 1..Len(header_df) |-> header_df[k].cells[col]])
             dropped == {header_rows[k] : k \in 1..Len(header_rows)}
             kept == SelectSeq([i \in 1..Len(df) |-> i - 1], LAMBDA i : i \notin dropped)
         IN  [body |-> List([k \in 1..Len(kept) |-> df[kept[k] + 1]]),
              header |-> List([col \in 1..Len(header_df[1].cells) |->
                            Strip(Join(<<" ">>, SelectSeq(column(col), IsNonempty)))])]

RECURSIVE SumY1(_)
SumY1(cs) == IF cs = <<>> THEN 0 ELSE Head(cs).y1 + SumY1(Tail(cs))

\* TablePostprocessor._row_positions
RowPositions(cells) ==
    LET keys == SetToSortedSeq({cells[k].row : k \in DOMAIN cells})
        of(r) == SelectSeq(cells, LAMBDA c : c.row = r)
    IN  List([k \in 1..Len(keys) |-> Frac(SumY1(of(keys[k])), Len(of(keys[k])))])

\* TablePostprocessor._row_gaps
RowGaps(row_positions) ==
    IF Len(row_positions) <= 1 THEN <<>>
    ELSE List([i \in 1..(Len(row_positions) - 1) |->
                 FracAbs(FracSub(row_positions[i], row_positions[i + 1]))])

\* the k-th smallest of a non-empty list of floats
KthSmallest(xs, k) ==
    CHOOSE v \in {xs[i] : i \in DOMAIN xs} :
        /\ Cardinality({i \in DOMAIN xs : FracGT(v, xs[i])}) < k
        /\ Cardinality({i \in DOMAIN xs : FracGE(v, xs[i])}) >= k

\* np.median of a non-empty list
Median(xs) ==
    IF Len(xs) % 2 = 1 THEN KthSmallest(xs, (Len(xs) + 1) \div 2)
    ELSE FracMul(<<1, 2>>, FracAdd(KthSmallest(xs, Len(xs) \div 2),
                                   KthSmallest(xs, Len(xs) \div 2 + 1)))

\* the split points of the large gaps
GapSplitPoints(gaps) ==
    IF Len(gaps) > 0
    THEN {i \in 1..Len(gaps) : FracGT(gaps[i], FracMul(Median(gaps), gap_multiplier))}
    ELSE {}

\* idxs of _detect_reheader_rows: is positional row i flagged
RowFlagged(df, numeric_ratio, nonempty_ratio, header, i) ==
    /\ ~FracGT(numeric_ratio[i + 1], reheader_allow_numeric_ratio_max)
    /\ FracGE(nonempty_ratio[i + 1], <<2, 5>>)
    /\ LET header_tokens == UNION {Tokenize(header[k]) : k \in DOMAIN header}
           row_tokens == UNION {Tokenize(df[i + 1].cells[j]) : j \in DOMAIN df[i + 1].cells}
       IN  IF header_tokens # {}
           THEN \/ FracGE(Jaccard(row_tokens, header_tokens), <<1, 5>>)
                \/ HeaderHint(df[i + 1].cells)
           ELSE HeaderHint(df[i + 1].cells)

Idxs(df, numeric_ratio, nonempty_ratio, header) ==
    SelectSeq([i \in 1..Len(df) |-> i - 1],
              LAMBDA i : RowFlagged(df, numeric_ratio, nonempty_ratio, header, i))

\* "de-duplicate consecutive indices"
RECURSIVE DedupConsecutive(_, _)
DedupConsecutive(dedup, idxs) ==
    IF idxs = <<>> THEN dedup
    ELSE LET i == Head(idxs)
         IN  DedupConsecutive(IF dedup = <<>> \/ i # dedup[Len(dedup)] + 1
                              THEN Append(dedup, i) ELSE dedup,
                              Tail(idxs))

\* TablePostprocessor._detect_reheader_rows
DetectReheaderRows(df, numeric_ratio, nonempty_ratio, header) ==
    IF Len(df) = 0 THEN <<>>
    ELSE DedupConsecutive(<<>>, Idxs(df, numeric_ratio, nonempty_ratio, header))

\* df.iloc[a:b, :], a >= 0
ILoc(df, a, b) == SubSeq(df, a + 1, Min(b, Len(df)))

RECURSIVE SliceFrom(_, _, _, _)
SliceFrom(df, cur, stops, chunks) ==
    IF stops = <<>> THEN chunks
    ELSE LET s == Head(stops)
         IN  IF s <= cur THEN SliceFrom(df, cur, Tail(stops), chunks)
             ELSE SliceFrom(df, s, Tail(stops), Append(chunks, ILoc(df, cur, s)))

\* TablePostprocessor._slice_chunks
SliceChunks(df, start_row, split_points) ==
    SliceFrom(df, start_row, split_points \o <<Len(df)>>, <<>>)

\* TablePostprocessor._bbox_for_rows; min() of no cell raises ValueError
BboxForRows(cells, row_indices) ==
    LET picked == SelectSeq(cells, LAMBDA c : c.row \in row_indices)
        sel == IF picked = <<>> THEN cells ELSE picked
        among == {sel[k] : k \in DOMAIN sel}
    IN  IF sel = <<>> THEN [raised |-> TRUE, value |-> None]
        ELSE [raised |-> FALSE,
              value |-> << SetMin({c.x1 : c \in among}), SetMin({c.y1 : c \in among}),
                           SetMax({c.x2 : c \in among}), SetMax({c.y2 : c \in among}) >>]

\* dict.get(key, default)
Get(d, key, default) == IF key \in DOMAIN d THEN d[key] ELSE default

\* has the element a detection with df and cells ("df is None or cells is None")
HasGeometry(elem) ==
    /\ "_camelot_table" \in DOMAIN elem.meta
    /\ "df" \in DOMAIN elem.meta["_camelot_table"]
    /\ "cells" \in DOMAIN elem.meta["_camelot_table"]

\* _process_one up to the header score: the normalized grid and its features
\* by row
RowFeatures(elem) ==
    Only({ [df |-> df,
            numeric_ratio |-> List([i \in 1..Len(df) |-> NumericRatio(df[i].cells)]),
            nonempty_ratio |-> List([i \in 1..Len(df) |-> NonemptyRatio(df[i].cells)]),
            header_score |-> List([i \in 1..Len(df) |-> HeaderScore(df[i].cells)])] :
           df \in {NormalizeDf(DataFrame(elem.meta["_camelot_table"].df))} })

\* _process_one up to the collapsed header: the header block, the header and
\* the body that replaces df
HeaderBlock(elem) ==
    Only({ Only({ Only({ [df |-> f.df,
                          numeric_ratio |-> f.numeric_ratio,
                          nonempty_ratio |-> f.nonempty_ratio,
                          header_row_idx |-> header_row_idx,
                          header |-> collapsed.header,
                          body |-> collapsed.body] :
                         collapsed \in {CollapseHeader(f.df, header_row_idx)} }) :
                  header_row_idx \in {DetectHeaderBlock(f.df, f.header_score, f.numeric_ratio)} }) :
           f \in {RowFeatures(elem)} })

\* _process_one up to the sorted split points
SplitPoints(elem) ==
    Only({ Only({ [normalized |-> h.df,
                   header_row_idx |-> h.header_row_idx,
                   header |-> h.header,
                   body |-> h.body,
                   idxs |-> Idxs(h.body, h.numeric_ratio, h.nonempty_ratio, h.header),
                   reheader_idx |-> reheader_idx,
                   start_row |-> start_row,
                   split_points |->
                       SetToSortedSeq({i \in {reheader_idx[k] : k \in DOMAIN reheader_idx}
                                               \cup GapSplitPoints(gaps) : i >= start_row})] :
                  reheader_idx \in {DetectReheaderRows(h.body, h.numeric_ratio,
                                                       h.nonempty_ratio, h.header)},
                  gaps \in {RowGaps(RowPositions(elem.meta["_camelot_table"].cells))},
                  start_row \in {IF h.header_row_idx # <<>>
                                 THEN Max(h.header_row_idx[Len(h.header_row_idx)] + 1, 0)
                                 ELSE 0} }) :
           h \in {HeaderBlock(elem)} })

\* the values _process_one computes on its way, for an element with geometry
Steps(elem) ==
    Only({ [normalized |-> sp.normalized,
            header_row_idx |-> sp.header_row_idx,
            header |-> sp.header,
            body |-> sp.body,
            idxs |-> sp.idxs,
            reheader_idx |-> sp.reheader_idx,
            start_row |-> sp.start_row,
            split_points |-> sp.split_points,
            chunks |-> SliceChunks(sp.body, sp.start_row, sp.split_points)] :
           sp \in {SplitPoints(elem)} })

\* the element _process_one builds of one non-empty chunk
SubElement(elem, header, chunk, bbox) ==
    LET meta == [k \in DOMAIN elem.meta \cup {"split_from", "header"} |->
                    IF k = "header" THEN header
                    ELSE IF k = "split_from"
                         THEN Get(elem.meta, "id", Get(elem.meta, "split_from", None))
                         ELSE elem.meta[k]]
        values == List([k \in 1..Len(chunk) |->
                     List([j \in 1..Len(chunk[k].cells) |-> Cell(chunk[k].cells[j])])])
        rows == IF header # <<>>
                THEN <<List([j \in 1..Len(header) |-> Cell(header[j])])>> \o values
                ELSE values
    IN  [elem EXCEPT !.rows = rows, !.bbox = bbox, !.meta = meta]

\* TablePostprocessor._process_one: the list it returns, or raised
ProcessOne(elem) ==
    IF ~HasGeometry(elem) THEN [raised |-> FALSE, value |-> <<elem>>]
    ELSE Only({ Only({ Only({
             IF \E k \in DOMAIN bbox : bbox[k].raised
             THEN [raised |-> TRUE, value |-> <<>>]
             ELSE [raised |-> FALSE,
                   value |-> IF chunks # <<>>
                             THEN List([k \in 1..Len(chunks) |->
                                        SubElement(elem, st.header, chunks[k], bbox[k].value)])
                             ELSE <<elem>>] :
             bbox \in {List([k \in 1..Len(chunks) |->
                          BboxForRows(elem.meta["_camelot_table"].cells,
                                      {chunks[k][m].label : m \in DOMAIN chunks[k]})])} }) :
             chunks \in {SelectSeq(st.chunks, LAMBDA chunk : chunk # <<>>)} }) :
             st \in {Steps(elem)} })

\* TablePostprocessor._process with the except clause dropping the element
_ProcessDropFailed(elements_by_page) ==
    [page_num \in DOMAIN elements_by_page |->
        Only({ Flatten(cleaned) :
               cleaned \in {List([i \in 1..Len(elements_by_page[page_num]) |->
                   Only({ IF elem.type # "table" THEN <<elem>>
                          ELSE Only({ IF returned.raised THEN <<>> ELSE returned.value :
                                      returned \in {ProcessOne(elem)} }) :
                          elem \in {elements_by_page[page_num][i]} })])} })]

\* TablePostprocessor._process
_Process(elements_by_page) ==
    [page_num \in DOMAIN elements_by_page |->
        Only({ Flatten(cleaned) :
               cleaned \in {List([i \in 1..Len(elements_by_page[page_num]) |->
                   Only({ IF elem.type # "table" THEN <<elem>>
                          ELSE Only({ IF returned.raised THEN <<elem>> ELSE returned.value :
                                      returned \in {ProcessOne(elem)} }) :
                          elem \in {elements_by_page[page_num][i]} })])} })]

\* TablePostprocessor.process
Process(elements_by_page) == elements_by_page

(***************************************************************************)
(* Specification SpecPost: the post-processor on a page mapping that holds *)
(* one Camelot detection between a text element and a table element        *)
(* without detection.  The detection's grid is, from the top: title rows   *)
(* (one filled cell), header rows, numeric rows, rows repeating the        *)
(* header, numeric rows.                                                   *)
(***************************************************************************)
MaxTitle == 1       \* title rows
MaxHeader == 2      \* header rows
MaxBody == 5        \* numeric rows before the repeated header
MaxReheader == 3    \* rows repeating the header
MaxTail == 3        \* numeric rows after the repeated header
MaxGapRow == 2      \* the row a larger vertical gap may precede

OtherThanCall ==
    <<extracted, parsed, pdf_page, camelot_tables, deduplicated, rededuped,
      results, b1, b2, iou>>

\* no assembler, table merger or _iou state
InitOthers ==
    /\ extracted = NoExtracted
    /\ parsed = NoDoc
    /\ pdf_page = NoPage
    /\ camelot_tables = [lattice |-> <<>>, stream |-> <<>>]
    /\ deduplicated = <<>>
    /\ rededuped = <<>>
    /\ results = <<>>
    /\ b1 = None
    /\ b2 = None
    /\ iou = <<>>

\* str(i), i >= 0
RECURSIVE NumStr(_)
NumStr(i) ==
    IF i < 10 THEN <<DIGITS[i + 1]>> ELSE NumStr(i \div 10) \o <<DIGITS[(i % 10) + 1]>>

TitleRow == << <<"R", "e", "p", "o", "r", "t">>, <<" ">> >>
HeaderRowA == << <<"I", "t", "e", "m">>, <<"T", "o", "t", "a", "l">> >>
HeaderRowB == << <<"n", "a", "m", "e">>, <<"u", "s", "d">> >>
ReheaderRow ==
    << <<"I", "t", "e", "m", "\n", "n", "a", "m", "e">>,
       <<" ", "T", "o", "t", "a", "l", " ", " ", "U", "S", "D">> >>
\* the numeric row at index i of the grid: rows differ by their index
NumericRow(i) == << NumStr(i), NumStr(i) \o <<".", "5">> >>

\* table.df.values.tolist() of a detection
RawRows(t, h, n1, r, n2) ==
       [k \in 1..t |-> TitleRow]
    \o [k \in 1..h |-> IF k % 2 = 1 THEN HeaderRowA ELSE HeaderRowB]
    \o [k \in 1..n1 |-> NumericRow(t + h + k - 1)]
    \o [k \in 1..r |-> ReheaderRow]
    \o [k \in 1..n2 |-> NumericRow(t + h + n1 + r + k - 1)]

\* table.cells: rows of height 2 from y = 100 down, columns of width 5; the
\* rows from gap_row on lie 3 lower (gap_row = 0: uniform)
CellGrid(nrows, ncols, gap_row) ==
    [k \in 1..(nrows * ncols) |->
        LET r == (k - 1) \div ncols
            c == (k - 1) % ncols
            top == 100 - 2 * r - (IF gap_row > 0 /\ r >= gap_row THEN 3 ELSE 0)
        IN  [row |-> r, col |-> c, x1 |-> 5 * c, y1 |-> top - 2,
             x2 |-> 5 * c + 5, y2 |-> top]]

\* what the element carries: no detection, a detection without cells, one
\* with an empty cell list, one with the cell grid
Geometries ==
    {<<"none", 0>>, <<"absent", 0>>, <<"empty", 0>>} \cup {<<"cells", g>> : g \in 0..MaxGapRow}

CamelotMeta(raw, geo) ==
    IF geo[1] = "none" THEN <<>>
    ELSE IF geo[1] = "absent" THEN ("_camelot_table" :> [df |-> raw])
    ELSE IF geo[1] = "empty" THEN ("_camelot_table" :> [df |-> raw, cells |-> <<>>])
    ELSE ("_camelot_table" :>
            [df |-> raw, cells |-> CellGrid(Len(raw), Len(raw[1]), geo[2])])

\* the table element of a detection, as _create_elements makes it, with the
\* detection attached
DetectedTable(raw, geo) ==
    [type |-> "table", page |-> 1, order |-> -1, content |-> None,
     rows |-> NormalizeRows(raw), bbox |-> <<0, 95 - 2 * Len(raw), 10, 100>>,
     meta |-> [source |-> "camelot", flavor |-> "lattice"] @@ CamelotMeta(raw, geo),
     id |-> <<2, 1, 1>>]

PageMapping(raw, geo) ==
    (1 :> << PdfElement("text", 1, <<0, 100, 10, 110>>, <<1, 1, 1>>),
             DetectedTable(raw, geo),
             PdfElement("table", 1, <<0, 0, 10, 10>>, <<2, 1, 2>>) >>)
    @@ (2 :> << PdfElement("text", 2, <<0, 0, 10, 10>>, <<1, 2, 1>>) >>)

InitPost ==
    /\ pc = "post_in"
    /\ \E t \in 0..MaxTitle, h \in 0..MaxHeader, n1 \in 0..MaxBody,
          r \in 0..MaxReheader, n2 \in 0..MaxTail, geo \in Geometries :
            /\ t + h + n1 + r + n2 > 0
            /\ call = [elements_by_page |-> PageMapping(RawRows(t, h, n1, r, n2), geo)]
    /\ out = NoOut
    /\ InitOthers

\* TableExtractor._extract hands the mapping to process
ProcessCall ==
    /\ pc = "post_in"
    /\ out' = [fn |-> "process", arg |-> call.elements_by_page, raised |-> FALSE,
               value |-> Process(call.elements_by_page)]
    /\ pc' = "post_done"
    /\ UNCHANGED <<call, OtherThanCall>>

\* the per-element pipeline on the same mapping
_ProcessCall ==
    /\ pc = "post_in"
    /\ out' = [fn |-> "_process", arg |-> call.elements_by_page, raised |-> FALSE,
               value |-> _Process(call.elements_by_page)]
    /\ pc' = "post_done"
    /\ UNCHANGED <<call, OtherThanCall>>

\* _process_one on a table element of the mapping
ProcessOneCall ==
    /\ pc = "post_in"
    /\ \E p \in DOMAIN call.elements_by_page :
          \E i \in 1..Len(call.elements_by_page[p]) :
              \E elem \in {call.elements_by_page[p][i]} :
                  /\ elem.type = "table"
                  /\ \E returned \in {ProcessOne(elem)} :
                        out' = [fn |-> "_process_one", arg |-> elem,
                                raised |-> returned.raised, value |-> returned.value]
    /\ pc' = "post_done"
    /\ UNCHANGED <<call, OtherThanCall>>

NextPost ==
    \/ ProcessCall
    \/ _ProcessCall
    \/ ProcessOneCall

SpecPost == InitPost /\ [][NextPost]_vars

(***************************************************************************)
(* PdfNinja.parse (ninja.py) and PdfContextBuilder (builders/              *)
(* pdf_context.py): which exception leaves parse.  An exception is its     *)
(* class, the message prefix of the handler that made it, and __cause__.   *)
(***************************************************************************)
\* the base class of each exception class (Exception: none that matters)
ExceptionBases ==
    [OSError |-> "Exception", FileNotFoundError |-> "OSError",
     ValueError |-> "Exception", JavaNotFoundError |-> "Exception",
     IndexError |-> "Exception", PdfNinjaError |-> "Exception",
     PdfNinjaParsingError |-> "PdfNinjaError"]

RECURSIVE IsSubclass(_, _)
IsSubclass(cls, base) ==
    \/ cls = base
    \/ cls \in DOMAIN ExceptionBases /\ IsSubclass(ExceptionBases[cls], base)

IsInstance(e, cls) == IsSubclass(e.type, cls)

\* an exception a library raises
Raised(type) == [type |-> type, msg |-> "", cause |-> None]

\* raise PdfNinjaParsingError(msg) from e
PdfNinjaParsingError(msg, e) == [type |-> "PdfNinjaParsingError", msg |-> msg, cause |-> e]

\* the except clauses of PdfContextBuilder._camelot
CamelotExcept(e) ==
    IF IsInstance(e, "OSError") \/ IsInstance(e, "ValueError")
    THEN PdfNinjaParsingError("Camelot I/O error", e)
    ELSE PdfNinjaParsingError("Camelot failed to parse", e)

\* the except clauses of PdfContextBuilder._pypdf
PypdfExcept(e) ==
    IF IsInstance(e, "OSError")
    THEN PdfNinjaParsingError("Cannot open file", e)
    ELSE PdfNinjaParsingError("pypdf failed to read structure", e)

\* the except clauses of PdfContextBuilder._tabula
TabulaExcept(e) ==
    IF IsInstance(e, "JavaNotFoundError")
    THEN PdfNinjaParsingError("Tabula requires Java", e)
    ELSE IF IsInstance(e, "OSError") \/ IsInstance(e, "ValueError")
    THEN PdfNinjaParsingError("Tabula I/O error", e)
    ELSE PdfNinjaParsingError("Tabula failed to parse", e)

\* the except clauses of parse without "except PdfNinjaError: raise"
ParseExceptWrapAll(e) ==
    IF IsInstance(e, "OSError") \/ IsInstance(e, "ValueError")
    THEN PdfNinjaParsingError("Failed to open PDF with pdfplumber", e)
    ELSE PdfNinjaParsingError("Unexpected error while parsing", e)

\* the except clauses of PdfNinja.parse
ParseExcept(e) ==
    IF IsInstance(e, "PdfNinjaError") THEN e
    ELSE IF IsInstance(e, "OSError") \/ IsInstance(e, "ValueError")
    THEN PdfNinjaParsingError("Failed to open PDF with pdfplumber", e)
    ELSE PdfNinjaParsingError("Unexpected error while parsing", e)

(***************************************************************************)
(* Specification SpecParse: one call of parse, step by step; every step    *)
(* can succeed or fail with an exception of its library.                   *)
(***************************************************************************)
Failures ==
    {Raised(t) : t \in {"OSError", "FileNotFoundError", "ValueError",
                        "JavaNotFoundError", "IndexError"}}

\* the "tabula" entry of an ExtractorConfig
TabulaConfigs ==
    {<<>>, [output_format |-> "json"], [output_format |-> "csv"],
     [output_format |-> "csv", lattice |-> TRUE]}

\* extractor_config: None, or a dict with any of the four keys
ExtractorConfigs ==
    {None} \cup
    UNION { { [k \in keys |-> IF k = "tabula" THEN tc ELSE <<>>] : tc \in TabulaConfigs } :
              keys \in (SUBSET {"camelot", "pdf_plumber", "pypdf", "tabula"}) \ {{}} }

Extractors == {"text", "tables", "images", "figures", "metadata"}

InitParse ==
    /\ pc = "parse_open"
    /\ \E c \in ExtractorConfigs : call = [path |-> "a.pdf", extractor_config |-> c]
    /\ out = [raised |-> FALSE, value |-> <<>>, failure |-> None, by |-> ""]
    /\ InitOthers

\* the exception e of step `by`, after the handlers it passes, leaves parse
Fail(by, e, handled) ==
    /\ out' = [raised |-> TRUE, value |-> ParseExcept(handled), failure |-> e, by |-> by]
    /\ pc' = "parse_raised"

\* pdfplumber.open(path, **extractor_config.get("pdf_plumber", {}))
ParseOpen ==
    /\ pc = "parse_open"
    /\ \/ /\ pc' = "parse_camelot"
          /\ out' = out
       \/ \E e \in Failures : Fail("pdfplumber", e, e)
    /\ UNCHANGED <<call, OtherThanCall>>

\* PdfContextBuilder._camelot
ParseCamelot ==
    /\ pc = "parse_camelot"
    /\ \/ /\ pc' = "parse_pypdf"
          /\ out' = out
       \/ \E e \in Failures : Fail("camelot", e, CamelotExcept(e))
    /\ UNCHANGED <<call, OtherThanCall>>

\* PdfContextBuilder._pypdf
ParsePypdf ==
    /\ pc = "parse_pypdf"
    /\ \/ /\ pc' = "parse_tabula"
          /\ out' = out
       \/ \E e \in Failures : Fail("pypdf", e, PypdfExcept(e))
    /\ UNCHANGED <<call, OtherThanCall>>

\* PdfContextBuilder._tabula; it sets output_format in the caller's dict
ParseTabula ==
    /\ pc = "parse_tabula"
    /\ call' =
          IF call.extractor_config # None /\ "tabula" \in DOMAIN call.extractor_config
          THEN [call EXCEPT !.extractor_config["tabula"] =
                    [k \in DOMAIN @ \cup {"output_format"} |->
                        IF k = "output_format" THEN "json" ELSE @[k]]]
          ELSE call
    /\ \/ /\ pc' = "parse_extract"
          /\ out' = out
       \/ \E e \in Failures : Fail("tabula", e, TabulaExcept(e))
    /\ UNCHANGED OtherThanCall

\* PdfNinja._extract: the five extractors, none of which parse guards
ParseExtract ==
    /\ pc = "parse_extract"
    /\ \/ /\ pc' = "parse_build"
          /\ out' = out
       \/ \E x \in Extractors : \E e \in Failures : Fail(x, e, e)
    /\ UNCHANGED <<call, OtherThanCall>>

\* PdfNinja._build_pdf
ParseBuild ==
    /\ pc = "parse_build"
    /\ \/ /\ pc' = "parse_close"
          /\ out' = out
       \/ \E e \in Failures : Fail("build", e, e)
    /\ UNCHANGED <<call, OtherThanCall>>

\* the with statement closes the pdfplumber document, then parse returns
ParseClose ==
    /\ pc = "parse_close"
    /\ \/ /\ pc' = "parse_returned"
          /\ out' = [out EXCEPT !.value = [NoDoc EXCEPT !.source = call.path]]
       \/ \E e \in Failures : Fail("close", e, e)
    /\ UNCHANGED <<call, OtherThanCall>>

NextParse ==
    \/ ParseOpen
    \/ ParseCamelot
    \/ ParsePypdf
    \/ ParseTabula
    \/ ParseExtract
    \/ ParseBuild
    \/ ParseClose

SpecParse == InitParse /\ [][NextParse]_vars

(***************************************************************************)
(* TextExtractor._group_lines_into_blocks and _merge_block (extractors/    *)
(* text.py).  Coordinates are whole numbers, font sizes exact fractions.   *)
(***************************************************************************)
\* the y_gap _extract_page_text passes
y_gap == 8

\* font_size or 0
OrZero(font_size) == IF font_size = None \/ font_size[1] = 0 THEN <<0, 1>> ELSE font_size

\* same_style with the font sizes left out
SameStyleNameOnly(prev, curr) ==
    prev.font_name = curr.font_name

\* same_style of _group_lines_into_blocks
SameStyle(prev, curr) ==
    /\ prev.font_name = curr.font_name
    /\ FracGT(<<1, 2>>, FracAbs(FracSub(OrZero(prev.font_size), OrZero(curr.font_size))))

\* the loop of _group_lines_into_blocks from the pair (lines[i-1], lines[i]),
\* 0-based, on; then the current block is closed
RECURSIVE GroupFrom(_, _, _, _)
GroupFrom(lines, blocks, current_block, i) ==
    IF i >= Len(lines)
    THEN IF current_block # <<>> THEN Append(blocks, current_block) ELSE blocks
    ELSE LET prev == lines[i]
             curr == lines[i + 1]
             vertical_gap == curr.bbox[2] - prev.bbox[4]
         IN  IF ~(prev.bbox # <<>> /\ curr.bbox # <<>>)
             THEN GroupFrom(lines, blocks, current_block, i + 1)
             ELSE IF vertical_gap <= y_gap /\ SameStyle(prev, curr)
             THEN GroupFrom(lines, blocks, Append(current_block, curr), i + 1)
             ELSE GroupFrom(lines, Append(blocks, current_block), <<curr>>, i + 1)

\* TextExtractor._merge_block; min() of no bbox raises ValueError
MergeBlock(lines) ==
    LET with_content == SelectSeq(lines, LAMBDA l : l.content # <<>>)
        text == Join(<<" ">>, List([k \in 1..Len(with_content) |-> Strip(with_content[k].content)]))
        boxes == {lines[k].bbox : k \in {k \in 1..Len(lines) : lines[k].bbox # <<>>}}
        base == lines[1]
    IN  IF boxes = {} THEN [raised |-> TRUE, value |-> None]
        ELSE [raised |-> FALSE,
              value |-> [type |-> "text", page |-> base.page, order |-> -1,
                         content |-> text, rows |-> None,
                         bbox |-> << SetMin({b[1] : b \in boxes}), SetMin({b[2] : b \in boxes}),
                                     SetMax({b[3] : b \in boxes}), SetMax({b[4] : b \in boxes}) >>,
                         font_size |-> base.font_size, font_name |-> base.font_name,
                         meta |-> [k \in DOMAIN base.meta \cup {"merged_lines"} |->
                                      IF k = "merged_lines" THEN Len(lines) ELSE base.meta[k]]]]

\* TextExtractor._group_lines_into_blocks: the list it returns, or raised
GroupLinesIntoBlocks(lines) ==
    IF lines = <<>> THEN [raised |-> FALSE, value |-> <<>>]
    ELSE LET blocks == GroupFrom(lines, <<>>, <<lines[1]>>, 1)
             merged == List([k \in 1..Len(blocks) |-> MergeBlock(blocks[k])])
         IN  IF \E k \in 1..Len(merged) : merged[k].raised
             THEN [raised |-> TRUE, value |-> <<>>]
             ELSE [raised |-> FALSE, value |-> List([k \in 1..Len(merged) |-> merged[k].value])]

(***************************************************************************)
(* Specification SpecBlocks: one call of _group_lines_into_blocks on the   *)
(* line elements _extract_page_text makes of a page: every line has text,  *)
(* a bbox [x0, top, x1, bottom], and the size and font of its first word.  *)
(***************************************************************************)
MaxLines == 3

\* vertical distance of a line from the bottom of the line before it
LineGaps == {8, 9}

FontNames == {<<"A">>, None}

\* absent, 10, 10.25 and 10.5 points
FontSizes == {None, <<10, 1>>, <<41, 4>>, <<21, 2>>}

LineChoices == LineGaps \X FontNames \X FontSizes

\* lines of height 10 and of growing width, the first at top 50
RECURSIVE LineTop(_, _)
LineTop(cs, i) == IF i = 1 THEN 50 ELSE LineTop(cs, i - 1) + 10 + cs[i][1]

LineElement(cs, i) ==
    [type |-> "text", page |-> 1, order |-> -1,
     content |-> <<"L">> \o NumStr(i) \o <<" ">>, rows |-> None,
     bbox |-> <<i, LineTop(cs, i), 20 + i, LineTop(cs, i) + 10>>,
     font_size |-> cs[i][3], font_name |-> cs[i][2],
     meta |-> [source |-> "pdfplumber"]]

InitBlocks ==
    /\ pc = "blocks_in"
    /\ \E n \in 0..MaxLines :
          \E cs \in [1..n -> LineChoices] :
              /\ n > 0 => cs[1][1] = 8
              /\ call = [lines |-> [i \in 1..n |-> LineElement(cs, i)]]
    /\ out = NoOut
    /\ InitOthers

GroupLinesCall ==
    /\ pc = "blocks_in"
    /\ out' = GroupLinesIntoBlocks(call.lines)
    /\ pc' = "blocks_done"
    /\ UNCHANGED <<call, OtherThanCall>>

NextBlocks == GroupLinesCall

SpecBlocks == InitBlocks /\ [][NextBlocks]_vars

(***************************************************************************)
(* Specification SpecFlatten: the table elements of _create_elements are   *)
(* assembled into a document, which is then flattened to text by           *)
(* ParsedPdf.stringify or, page by page, by PdfPage.stringify.             *)
(***************************************************************************)
MaxFlattenTables == 2   \* detections handed to _create_elements

\* raw grids of a detection: a filled and a blank cell; two filled cells;
\* a cell longer than TABLE_MAX_CELL_LEN
RawDfs ==
    { RawDf,
      << << <<"a">>, <<"b">> >> >>,
      << << <<"a", "b">>, <<"a">> >> >> }

FlattenDetection(i, page, df) ==
    [id |-> i, page |-> page, bbox |-> <<0, 0, 4, 1>>, flavor |-> "lattice", df |-> df]

InitFlatten ==
    /\ pc = "flatten_in"
    /\ \E n \in 0..MaxFlattenTables :
          \E ds \in [1..n -> Pages \X RawDfs] :
              camelot_tables =
                  [lattice |-> [i \in 1..n |-> FlattenDetection(i, ds[i][1], ds[i][2])],
                   stream |-> <<>>]
    /\ extracted = NoExtracted
    /\ parsed = NoDoc
    /\ pdf_page = NoPage
    /\ call = NoCall
    /\ out = NoOut
    /\ deduplicated = <<>>
    /\ rededuped = <<>>
    /\ results = <<>>
    /\ b1 = None
    /\ b2 = None
    /\ iou = <<>>

\* return self._create_elements(deduplicated)
CreateElementsCall ==
    /\ pc = "flatten_in"
    /\ results' = CreateElements(Combined)
    /\ pc' = "created"
    /\ UNCHANGED <<extracted, parsed, pdf_page, call, out, camelot_tables,
                   deduplicated, rededuped, b1, b2, iou>>

\* the table mapping is the only non-empty one given to the assembler
FlattenBuild ==
    /\ pc = "created"
    /\ extracted' = [extracted EXCEPT !.tables = results]
    /\ parsed' = BuildParsedPdf(extracted')
    /\ pc' = "flatten_built"
    /\ UNCHANGED <<pdf_page, call, out, camelot_tables, deduplicated, rededuped,
                   results, b1, b2, iou>>

FlattenDocCall ==
    /\ pc = "flatten_built"
    /\ \E include_tables, include_images \in BOOLEAN :
          /\ call' = [include_tables |-> include_tables, include_images |-> include_images]
          /\ out' = DocStringify(parsed, include_tables, include_images)
    /\ pc' = "flatten_doc_done"
    /\ UNCHANGED <<extracted, parsed, pdf_page, camelot_tables, deduplicated,
                   rededuped, results, b1, b2, iou>>

FlattenPageCall ==
    /\ pc = "flatten_built"
    /\ \E i \in 1..Len(parsed.pages) :
          \E include_tables, include_images \in BOOLEAN :
              /\ pdf_page' = parsed.pages[i]
              /\ call' = [include_tables |-> include_tables,
                          include_images |-> include_images]
              /\ out' = PageStringify(parsed.pages[i], include_tables, include_images)
    /\ pc' = "flatten_page_done"
    /\ UNCHANGED <<extracted, parsed, camelot_tables, deduplicated, rededuped,
                   results, b1, b2, iou>>

NextFlatten ==
    \/ CreateElementsCall
    \/ FlattenBuild
    \/ FlattenDocCall
    \/ FlattenPageCall

SpecFlatten == InitFlatten /\ [][NextFlatten]_vars

(***************************************************************************)
(* TextExtractor._extract_page_text and _group_words_into_lines.  A word   *)
(* is the dict pdfplumber's extract_words returns: text, x0, x1, top,      *)
(* bottom (no "size" or "fontname" key unless asked for).                  *)
(***************************************************************************)
y_tolerance == 4

\* TextExtractor(min_font_size=0.0)
min_font_size == <<0, 1>>

\* w.get(key)
WordGet(w, key) == IF key \in DOMAIN w THEN w[key] ELSE None

\* words.sort(key=lambda w: (w["top"], w["x0"]))
SortWords(words) ==
    PySorted(words, [i \in 1..Len(words) |-> <<Fin(words[i].top), Fin(words[i].x0)>>])

\* the loop of _group_words_into_lines over the words after the first, then
\* the current line is closed
RECURSIVE GroupWordsFrom(_, _, _, _)
GroupWordsFrom(words, lines, current_line, current_y) ==
    IF words = <<>>
    THEN IF current_line # <<>> THEN Append(lines, current_line) ELSE lines
    ELSE IF Abs(Head(words).top - current_y) <= y_tolerance
    THEN GroupWordsFrom(Tail(words), lines, Append(current_line, Head(words)), current_y)
    ELSE GroupWordsFrom(Tail(words), Append(lines, current_line), <<Head(words)>>,
                        Head(words).top)

\* TextExtractor._group_words_into_lines(words, y_tolerance=4.0)
GroupWordsIntoLines(words) ==
    IF words = <<>> THEN <<>>
    ELSE GroupWordsFrom(Tail(words), <<>>, <<Head(words)>>, Head(words).top)

\* " ".join(w["text"].strip() for w in line_words if w.get("text"))
LineText(line_words) ==
    Join(<<" ">>,
         List([k \in 1..Len(SelectSeq(line_words, LAMBDA w : WordGet(w, "text") # None)) |->
                 Strip(SelectSeq(line_words, LAMBDA w : WordGet(w, "text") # None)[k].text)]))

\* if font_size and font_size < self.min_font_size
TooSmall(font_size) ==
    font_size # None /\ font_size[1] # 0 /\ FracGT(min_font_size, font_size)

\* one pass of the loop over line_groups: the element appended to
\* line_elements, or nothing
LineOfWords(line_words, page_number) ==
    IF LineText(line_words) = <<>> \/ TooSmall(WordGet(line_words[1], "size")) THEN <<>>
    ELSE << [type |-> "text", page |-> page_number, order |-> -1,
             content |-> LineText(line_words), rows |-> None,
             bbox |-> << SetMin({line_words[k].x0 : k \in 1..Len(line_words)}),
                         SetMin({line_words[k].top : k \in 1..Len(line_words)}),
                         SetMax({line_words[k].x1 : k \in 1..Len(line_words)}),
                         SetMax({line_words[k].bottom : k \in 1..Len(line_words)}) >>,
             font_size |-> WordGet(line_words[1], "size"),
             font_name |-> WordGet(line_words[1], "fontname"),
             meta |-> [source |-> "pdfplumber"]] >>

LineElements(line_groups, page_number) ==
    Flatten(List([k \in 1..Len(line_groups) |-> LineOfWords(line_groups[k], page_number)]))

\* the line groups _extract_page_text makes of the words its page returns
LineGroups(words) == GroupWordsIntoLines(SortWords(words))

\* TextExtractor._extract_page_text: the blocks it returns (or raised), with
\* the line elements it built them from
ExtractPageText(words, page_number) ==
    Only({ Only({ [raised |-> blocks.raised, value |-> blocks.value,
                   line_elements |-> line_elements] :
                  blocks \in {GroupLinesIntoBlocks(line_elements)} }) :
           line_elements \in {LineElements(LineGroups(words), page_number)} })

(***************************************************************************)
(* Specification SpecWords: one call of _extract_page_text on a page whose *)
(* extract_words returns any list of at most MaxWords words.               *)
(***************************************************************************)
MaxWords == 3

\* tops 2 and 5 away from the first; 12 and 15 are within the tolerance of
\* each other but not both of 10
WordTops == {10, 12, 15}

WordX0s == {0, 10}

WordTexts == {<<"a">>, <<"b", " ">>, <<" ">>}

\* a word of width 5 and height 10
Word(top, x0, text) ==
    [text |-> text, x0 |-> x0, x1 |-> x0 + 5, top |-> top, bottom |-> top + 10]

InitWords ==
    /\ pc = "words_in"
    /\ \E n \in 0..MaxWords :
          \E ws \in [1..n -> WordTops \X WordX0s \X WordTexts] :
              call = [words |-> [i \in 1..n |-> Word(ws[i][1], ws[i][2], ws[i][3])]]
    /\ out = NoOut
    /\ InitOthers

ExtractPageTextCall ==
    /\ pc = "words_in"
    /\ out' = ExtractPageText(call.words, 1)
    /\ pc' = "words_done"
    /\ UNCHANGED <<call, OtherThanCall>>

NextWords == ExtractPageTextCall

SpecWords == InitWords /\ [][NextWords]_vars

(***************************************************************************)
(* Claims on the assembler (SpecAssemble).                                 *)
(***************************************************************************)
Built == pc = "built"

PageElems(i) == parsed.pages[i].elements

ElemPairs(i) == (1..Len(PageElems(i))) \X (1..Len(PageElems(i)))

HasBox(el) == el.bbox # None

\* a was concatenated before b into the page's list: text, tables, images,
\* figures (id[1] = 1..4), each in input list order (id[3])
ConcatBefore(a, b) ==
    a.id[1] < b.id[1] \/ (a.id[1] = b.id[1] /\ a.id[3] < b.id[3])

\* C1: after build_parsed_pdf every page of N elements uses the ordinals
\* 0..N-1 once each, and the element at list position i (0-based) has
\* ordinal i.
C1_OrdinalsContiguous ==
    Built =>
        \A i \in 1..Len(parsed.pages) :
            LET els == PageElems(i)
                N == Len(els)
            IN  /\ {els[j].order : j \in 1..N} = 0..(N - 1)
                /\ \A j, k \in 1..N : els[j].order = els[k].order => j = k
                /\ \A j \in 1..N : els[j].order = j - 1

\* a built page of three elements that come from at least two types
C1_Witness ==
    /\ Built
    /\ \E i \in 1..Len(parsed.pages) :
          /\ Len(PageElems(i)) = 3
          /\ \E j, k \in 1..3 : PageElems(i)[j].type # PageElems(i)[k].type

\* C2: among the boxed elements of a page, a smaller top edge gets the
\* smaller ordinal and, at equal top, a smaller left edge gets the smaller
\* ordinal; so (0,100,10,120) precedes (50,100,60,120).
C2_ReadingOrder ==
    Built =>
        \A i \in 1..Len(parsed.pages) :
            \A <<j, k>> \in ElemPairs(i) :
                LET a == PageElems(i)[j]
                    b == PageElems(i)[k]
                IN  (HasBox(a) /\ HasBox(b)) =>
                      /\ a.bbox[2] < b.bbox[2] => a.order < b.order
                      /\ (a.bbox[2] = b.bbox[2] /\ a.bbox[1] < b.bbox[1])
                            => a.order < b.order
                      /\ (a.bbox = <<0, 100, 10, 120>> /\ b.bbox = <<50, 100, 60, 120>>)
                            => a.order < b.order

\* the two boxes of the example on one page, of different types, the right
\* one concatenated first
C2_Witness ==
    /\ Built
    /\ \E i \in 1..Len(parsed.pages) :
          \E <<j, k>> \in ElemPairs(i) :
              /\ PageElems(i)[j].bbox = <<0, 100, 10, 120>>
              /\ PageElems(i)[k].bbox = <<50, 100, 60, 120>>
              /\ PageElems(i)[j].type # PageElems(i)[k].type
              /\ ConcatBefore(PageElems(i)[k], PageElems(i)[j])

\* C3: on every page an element without a bounding box has a larger ordinal
\* than every element with one, and the elements without a bounding box keep
\* their concatenation order (text, tables, images, figures; list order).
C3_UnboxedLast ==
    Built =>
        \A i \in 1..Len(parsed.pages) :
            \A <<j, k>> \in ElemPairs(i) :
                LET a == PageElems(i)[j]
                    b == PageElems(i)[k]
                IN  /\ (~HasBox(a) /\ HasBox(b)) => a.order > b.order
                    /\ (~HasBox(a) /\ ~HasBox(b) /\ ConcatBefore(a, b))
                          => a.order < b.order

\* a page with two unboxed elements of different types and a boxed element
\* that was concatenated after both
C3_Witness ==
    /\ Built
    /\ \E i \in 1..Len(parsed.pages) :
          \E j, k, l \in 1..Len(PageElems(i)) :
              /\ ~HasBox(PageElems(i)[j])
              /\ ~HasBox(PageElems(i)[k])
              /\ PageElems(i)[j].type # PageElems(i)[k].type
              /\ HasBox(PageElems(i)[l])
              /\ ConcatBefore(PageElems(i)[j], PageElems(i)[l])
              /\ ConcatBefore(PageElems(i)[k], PageElems(i)[l])

\* the four per-type mappings handed to the builder
Mappings == <<extracted.text, extracted.tables, extracted.images, extracted.figures>>

\* the (page index, position) at which the document holds the element `id`
PlacesOf(id) ==
    UNION { { <<i, j>> : j \in {k \in 1..Len(PageElems(i)) : PageElems(i)[k].id = id} } :
            i \in 1..Len(parsed.pages) }

\* C20: every element of every per-type list is in the returned document
\* exactly once, unchanged but for its ordinal, on the page numbered as the
\* mapping key it was listed under; the document holds nothing else, has one
\* page per page number that is a key of any mapping, and its pages are in
\* strictly ascending page-number order.
C20_AssemblyConserves ==
    Built =>
        /\ \A t \in 1..4 :
              \A p \in DOMAIN Mappings[t] :
                  \A i \in 1..Len(Mappings[t][p]) :
                      LET el == Mappings[t][p][i]
                      IN  /\ Cardinality(PlacesOf(el.id)) = 1
                          /\ \A ij \in PlacesOf(el.id) :
                                /\ parsed.pages[ij[1]].page_number = p
                                /\ PageElems(ij[1])[ij[2]] = el
        /\ NumExtracted(extracted) =
              Cardinality(UNION { {i} \X (1..Len(PageElems(i))) : i \in 1..Len(parsed.pages) })
        /\ {parsed.pages[i].page_number : i \in 1..Len(parsed.pages)} =
              UNION {DOMAIN Mappings[t] : t \in 1..4}
        /\ \A i \in 1..(Len(parsed.pages) - 1) :
              parsed.pages[i].page_number < parsed.pages[i + 1].page_number

\* a document of two pages, one of them filled from two mappings
C20_Witness ==
    /\ Built
    /\ Len(parsed.pages) = 2
    /\ \E i \in 1..2 : \E j, k \in 1..Len(PageElems(i)) :
          PageElems(i)[j].id[1] # PageElems(i)[k].id[1]

(***************************************************************************)
(* Claims on flatten-to-text (SpecDoc, SpecPage).                          *)
(***************************************************************************)
\* the text of the page numbered p under the flags of the call, "" when the
\* document has no such page
TextOfPageNumber(p) ==
    LET at == {i \in 1..Len(parsed.pages) : parsed.pages[i].page_number = p}
    IN  IF at = {} THEN <<>>
        ELSE PageStringify(parsed.pages[CHOOSE i \in at : TRUE],
                           call.include_tables, call.include_images).value

PlainText(el) == el.type = "text" /\ Strip(el.content) # <<>>

\* C4: ParsedPdf.stringify gives the non-empty page texts in ascending
\* page-number order joined by the page-break marker, wherever the pages sit
\* in ParsedPdf.pages; two pages of non-empty plain text give
\* text(lower) marker text(higher).
C4_PagesInNumberOrder ==
    (pc = "doc_done" /\ ~out.raised) =>
        /\ out.value = Join(PAGE_BREAK,
                            SelectSeq([p \in 1..MaxPage |-> TextOfPageNumber(p)],
                                      LAMBDA t : t # <<>>))
        /\ \A i, j \in 1..Len(parsed.pages) :
              ( /\ Len(parsed.pages) = 2
                /\ parsed.pages[i].page_number < parsed.pages[j].page_number
                /\ \A k \in 1..Len(parsed.pages[i].elements) :
                      PlainText(parsed.pages[i].elements[k])
                /\ \A k \in 1..Len(parsed.pages[j].elements) :
                      PlainText(parsed.pages[j].elements[k]) )
              => out.value =
                    TextOfPageNumber(parsed.pages[i].page_number)
                    \o PAGE_BREAK
                    \o TextOfPageNumber(parsed.pages[j].page_number)

\* two pages of plain text stored higher page number first, flattened
C4_Witness ==
    /\ pc = "doc_done"
    /\ ~out.raised
    /\ Len(parsed.pages) = 2
    /\ parsed.pages[1].page_number > parsed.pages[2].page_number
    /\ \A i \in 1..2 : \A k \in 1..Len(parsed.pages[i].elements) :
          PlainText(parsed.pages[i].elements[k])
    /\ TextOfPageNumber(parsed.pages[1].page_number)
         # TextOfPageNumber(parsed.pages[2].page_number)
    /\ Len(out.value) > Len(PAGE_BREAK)

\* the elements of the page given to stringify, by ascending ordinal
ByOrdinal(pg) ==
    [o \in 1..Len(pg.elements) |->
        pg.elements[CHOOSE i \in 1..Len(pg.elements) : pg.elements[i].order = o - 1]]

IncludedBy(el, c) ==
    \/ el.type = "text"
    \/ el.type = "table" /\ c.include_tables
    \/ el.type \in {"image", "figure"} /\ c.include_images

\* C5: PdfPage.stringify is the stripped join, with a blank line between
\* them, of the contents of the included elements in ascending ordinal
\* order, whatever their position in PdfPage.elements; tables count only
\* with include_tables and image/figure captions only with include_images.
C5_ElementsInOrdinalOrder ==
    (pc = "page_done" /\ ~out.raised) =>
        out.value =
            Strip(Join(BLANK_LINE,
                Flatten([o \in 1..Len(pdf_page.elements) |->
                    IF IncludedBy(ByOrdinal(pdf_page)[o], call)
                    THEN ElementLines(ByOrdinal(pdf_page)[o], TRUE, TRUE)
                    ELSE <<>>])))

\* a page holding a text, a table and a captioned image, listed against
\* their ordinals, flattened with both flags set
C5_Witness ==
    /\ pc = "page_done"
    /\ ~out.raised
    /\ call.include_tables
    /\ call.include_images
    /\ Len(pdf_page.elements) = 3
    /\ pdf_page.elements[1].order > pdf_page.elements[2].order
    /\ pdf_page.elements[2].order > pdf_page.elements[3].order
    /\ {pdf_page.elements[i] .type : i \in 1..3} = {"text", "table", "image"}
    /\ \A i \in 1..3 :
          ElementLines(pdf_page.elements[i], TRUE, TRUE) \notin {<<>>, << <<>> >>}

(***************************************************************************)
(* Claims on the table merger (SpecTables).                                *)
(***************************************************************************)
Overlap(t, u) ==
    ~IouRaises(t.bbox, u.bbox) /\ FracGT(Iou(t.bbox, u.bbox), TABLE_IOU_THRESHOLD)

Extracted == pc \in {"extracted", "rededuped"}

\* C6: the list _dedupe_by_bbox returns holds no two distinct detections
\* whose IOU exceeds the threshold.
C6_NoOverlapKept ==
    Extracted =>
        \A i, j \in 1..Len(deduplicated) :
            i # j => ~Overlap(deduplicated[i], deduplicated[j])

\* C7: _dedupe_by_bbox applied to its own output returns the same list.
C7_DedupIdempotent ==
    pc = "rededuped" => rededuped = deduplicated

\* C8: of two detections of one region (same page, IOU above the
\* threshold), one lattice and one stream, exactly the stream one survives,
\* in either input order; in every other flavor combination the first one
\* stays and the second is discarded.
C8_StreamBeatsLattice ==
    (Extracted /\ Len(Combined) = 2) =>
        LET t1 == Combined[1]
            t2 == Combined[2]
        IN  (t1.bbox # None /\ t2.bbox # None /\ t1.page = t2.page /\ Overlap(t1, t2)) =>
              /\ Len(deduplicated) = 1
              /\ ({t1.flavor, t2.flavor} = {"lattice", "stream"})
                    => deduplicated[1].flavor = "stream"
              /\ IF t1.flavor = "lattice" /\ t2.flavor = "stream"
                 THEN deduplicated = <<t2>>
                 ELSE deduplicated = <<t1>>

\* a stream detection followed by a lattice detection of the same region
\* (IOU 5/6), merged
C8_Witness ==
    /\ Extracted
    /\ Len(Combined) = 2
    /\ Combined[1].flavor = "stream"
    /\ Combined[2].flavor = "lattice"
    /\ Combined[1].page = Combined[2].page
    /\ Iou(Combined[1].bbox, Combined[2].bbox) = <<5, 6>>
    /\ deduplicated = <<Combined[1]>>

\* the element of detection t is in the list of t's page
InResults(t) ==
    /\ t.page \in DOMAIN results
    /\ \E i \in 1..Len(results[t.page]) : results[t.page][i].id = t.id

\* C9: a detection that no other detection of its own page overlaps above
\* the threshold survives extract and appears in the list of its page.
C9_DedupPerPage ==
    Extracted =>
        \A i \in 1..Len(Combined) :
            ( /\ Combined[i].bbox # None
              /\ \A j \in 1..Len(Combined) :
                    (j # i /\ Combined[j].page = Combined[i].page)
                        => ~Overlap(Combined[i], Combined[j]) )
            => /\ \E k \in 1..Len(deduplicated) : deduplicated[k] = Combined[i]
               /\ InResults(Combined[i])

\* C13: a failure while one detection is processed does not abort the table
\* stage: extract returns, and every well-formed detection that no other
\* detection overlaps is in the list of its page.
C13_FailureIsolated ==
    pc # "tables_in" =>
        /\ ~out.raised
        /\ \A i \in 1..Len(Combined) :
              ( /\ Creatable(Combined[i])
                /\ \A j \in 1..Len(Combined) :
                      j # i => ~Overlap(Combined[i], Combined[j]) )
              => InResults(Combined[i])

\* index of the kept detection of maximum IOU with t if that IOU is above
\* the threshold (the first of them if several reach it), 0 if none is
MaxIouDuplicate(t, unique) ==
    LET hits == {i \in 1..Len(unique) : Overlap(t, unique[i])}
        best == {i \in hits : \A j \in hits :
                    ~FracGT(Iou(t.bbox, unique[j].bbox), Iou(t.bbox, unique[i].bbox))}
    IN  IF hits = {} THEN 0 ELSE CHOOSE i \in best : \A j \in best : i <= j

\* the merge with the tie-break applied against the maximum-IOU kept detection
RECURSIVE MergeByMaxIou(_, _)
MergeByMaxIou(unique, tables) ==
    IF tables = <<>> THEN unique
    ELSE LET t == Head(tables)
             k == MaxIouDuplicate(t, unique)
             kept == IF t.bbox = None THEN unique
                     ELSE IF k = 0 THEN Append(unique, t)
                     ELSE IF t.flavor = "stream" /\ unique[k].flavor = "lattice"
                          THEN [unique EXCEPT ![k] = t]
                          ELSE unique
         IN  MergeByMaxIou(kept, Tail(tables))

\* C18: a candidate that overlaps several kept detections above the
\* threshold is treated as an overlap with the kept detection of maximum
\* IOU: what _dedupe_by_bbox returns is the merge in which the flavor
\* tie-break is applied against that detection.
C18_TieBreakAgainstMaxIou ==
    Extracted => deduplicated = MergeByMaxIou(<<>>, Combined)

(***************************************************************************)
(* Claims on _iou (SpecIou).                                               *)
(***************************************************************************)
Disjoint(x, y) ==
    x[3] <= y[1] \/ y[3] <= x[1] \/ x[4] <= y[2] \/ y[4] <= x[2]

Degenerate(b) == b[3] = b[1] \/ b[4] = b[2]

IouSymmetricAndZero ==
    /\ iou.ab = iou.ba
    /\ (b1 = None \/ b2 = None) => iou.ab = Zero
    /\ (b1 # None /\ b2 # None /\ Disjoint(b1, b2)) => iou.ab = Zero

\* C10 as claimed: _iou(b, b) = 1 for every box with x1 >= x0, y1 >= y0;
\* _iou is symmetric and 0 on disjoint or missing boxes.
C10_IouAsClaimed ==
    pc = "iou_done" =>
        /\ b1 # None => iou.aa = One
        /\ IouSymmetricAndZero

\* C10 amended: _iou(b, b) = 1 for every box of positive area and 0 for a
\* degenerate one; _iou is symmetric and 0 on disjoint or missing boxes.
C10_IouAmended ==
    pc = "iou_done" =>
        /\ (b1 # None /\ ~Degenerate(b1)) => iou.aa = One
        /\ (b1 # None /\ Degenerate(b1)) => iou.aa = Zero
        /\ IouSymmetricAndZero

\* two different boxes of positive area that overlap in part
C10_Witness ==
    /\ pc = "iou_done"
    /\ b1 # None /\ b2 # None
    /\ ~Degenerate(b1) /\ ~Degenerate(b2)
    /\ b1 # b2
    /\ iou.aa = One
    /\ iou.ab \notin {Zero, One}

(***************************************************************************)
(* Claims on the table post-processor (SpecPost).                          *)
(***************************************************************************)
Returned(fn) == pc = "post_done" /\ out.fn = fn

\* the detection of the header-split scenario: 2 header rows, 5 numeric
\* rows, 1 row repeating the header, 3 numeric rows, uniform row geometry
HeaderSplitTable == DetectedTable(RawRows(0, 2, 5, 1, 3), <<"cells", 0>>)

\* "Item name", "Total usd"
CollapsedHeader ==
    << Cell(<<"I", "t", "e", "m", " ", "n", "a", "m", "e">>),
       Cell(<<"T", "o", "t", "a", "l", " ", "u", "s", "d">>) >>

RowOfCells(row) == [j \in 1..Len(row) |-> Cell(Norm(row[j]))]

\* the 8 numeric body rows of the scenario (grid rows 2..6 and 8..10)
HeaderSplitBodyRows == {RowOfCells(NumericRow(i)) : i \in (2..6) \cup (8..10)}

\* C11: _process_one on the header-split scenario returns exactly 2 table
\* elements, each with the collapsed header as its first row, which together
\* contain all 8 numeric body rows.
C11_HeaderSplit ==
    (Returned("_process_one") /\ out.arg = HeaderSplitTable) =>
        /\ ~out.raised
        /\ Len(out.value) = 2
        /\ \A k \in 1..Len(out.value) : out.value[k].rows[1] = CollapsedHeader
        /\ \A row \in HeaderSplitBodyRows :
              \E k \in 1..Len(out.value) :
                  \E m \in 2..Len(out.value[k].rows) : out.value[k].rows[m] = row

\* no attached detection, cells absent, or an empty cell list
NoCellGeometry(elem) ==
    ~HasGeometry(elem) \/ elem.meta["_camelot_table"].cells = <<>>

\* the elements of a list that are, or were made of, the element with this id
MadeOf(elements, id) == SelectSeq(elements, LAMBDA e : e.id = id)

\* C12: a table element without cell geometry comes back from the
\* post-processor as exactly one element, identical to the input (rows, bbox,
\* meta), and nothing is raised.
C12_FailSoft ==
    (Returned("_process") \/ Returned("process")) =>
        /\ ~out.raised
        /\ DOMAIN out.value = DOMAIN out.arg
        /\ \A p \in DOMAIN out.arg :
              \A i \in 1..Len(out.arg[p]) :
                  LET elem == out.arg[p][i]
                  IN  (elem.type = "table" /\ NoCellGeometry(elem)) =>
                          MadeOf(out.value[p], elem.id) = <<elem>>

\* _process has passed through a table whose empty cell list made
\* _process_one raise
C12_Witness ==
    /\ Returned("_process")
    /\ \E i \in 1..Len(out.arg[1]) :
          LET elem == out.arg[1][i]
          IN  /\ elem.type = "table"
              /\ HasGeometry(elem)
              /\ elem.meta["_camelot_table"].cells = <<>>
              /\ ProcessOne(elem).raised
              /\ MadeOf(out.value[1], elem.id) = <<elem>>

\* C15: TablePostprocessor.process returns what the per-element pipeline
\* _process returns: every table element replaced by the output of
\* _process_one, every other element passed through in order.
C15_ProcessIsPipeline ==
    Returned("process") => out.value = _Process(out.arg)

\* the chunks _process_one keeps, and the body they were cut from
KeptChunks(elem) == SelectSeq(Steps(elem).chunks, LAMBDA chunk : chunk # <<>>)

\* the rows of an element made of the header and these DataFrame rows
HeaderThenRows(header, df) ==
    (IF header # <<>> THEN <<RowOfCells(header)>> ELSE <<>>) \o
    [k \in 1..Len(df) |-> RowOfCells(df[k].cells)]

\* C16: the non-empty chunks _process_one cuts are, one after the other,
\* exactly the body (every body row in exactly one chunk, in order), and
\* without a split boundary the one output element has the collapsed header
\* followed by all body rows.
C16_NoBodyRowLost ==
    (/\ Returned("_process_one")
     /\ HasGeometry(out.arg)
     /\ ~out.raised
     /\ Steps(out.arg).body # <<>>) =>
        LET st == Steps(out.arg)
        IN  /\ Flatten(KeptChunks(out.arg)) = st.body
            /\ st.split_points = <<>> =>
                  /\ Len(out.value) = 1
                  /\ out.value[1].rows = HeaderThenRows(st.header, st.body)

\* the first index of every maximal run of consecutive indices
FirstOfRuns(idxs) ==
    SelectSeq(idxs, LAMBDA i : \A k \in DOMAIN idxs : idxs[k] # i - 1)

\* C17: of the flagged row indices, _detect_reheader_rows returns the first
\* index of every maximal run of consecutive indices and nothing else.
C17_OneBoundaryPerRun ==
    (Returned("_process_one") /\ HasGeometry(out.arg)) =>
        Steps(out.arg).reheader_idx = FirstOfRuns(Steps(out.arg).idxs)

(***************************************************************************)
(* Claims on PdfNinja.parse (SpecParse).                                   *)
(***************************************************************************)
ParseDone == pc \in {"parse_returned", "parse_raised"}

\* C14: parse returns a ParsedPdf or raises a PdfNinjaError: the failure of
\* a backend or of a later stage leaves parse as one PdfNinjaParsingError
\* whose cause is that failure, never wrapped twice, and no exception of
\* another class leaves parse.
C14_ParseRaisesOnlyPdfNinjaError ==
    ParseDone =>
        IF out.raised
        THEN /\ IsInstance(out.value, "PdfNinjaError")
             /\ out.value.type = "PdfNinjaParsingError"
             /\ out.value.cause = out.failure
             /\ ~IsInstance(out.failure, "PdfNinjaError")
        ELSE out.value = [NoDoc EXCEPT !.source = call.path]

\* the PdfNinjaParsingError of PdfContextBuilder._tabula has reached the
\* caller as it was raised
C14_Witness ==
    /\ pc = "parse_raised"
    /\ out.by = "tabula"
    /\ out.failure = Raised("JavaNotFoundError")
    /\ out.value = PdfNinjaParsingError("Tabula requires Java", out.failure)

(***************************************************************************)
(* Claims on the text block grouping (SpecBlocks).                         *)
(***************************************************************************)
RECURSIVE MergedBefore(_, _)
\* the number of lines merged into the first k blocks
MergedBefore(blocks, k) ==
    IF k = 0 THEN 0 ELSE MergedBefore(blocks, k - 1) + blocks[k].meta["merged_lines"]

\* the block the i-th line falls in when the blocks are runs in order
BlockOf(blocks, i) ==
    CHOOSE k \in 1..Len(blocks) :
        MergedBefore(blocks, k - 1) < i /\ i <= MergedBefore(blocks, k)

\* curr's top minus prev's bottom is at most 8, same font name, font sizes
\* (none counts as 0) less than 0.5 apart
Mergeable(prev, curr) ==
    /\ curr.bbox[2] - prev.bbox[4] <= 8
    /\ prev.font_name = curr.font_name
    /\ LET a == IF prev.font_size = None THEN <<0, 1>> ELSE prev.font_size
           b == IF curr.font_size = None THEN <<0, 1>> ELSE curr.font_size
       IN  2 * Abs(a[1] * b[2] - b[1] * a[2]) < a[2] * b[2]

\* C19: the blocks are the line sequence cut into contiguous runs in order:
\* the merged_lines counts are at least 1 and sum to the number of lines,
\* each block carries the text of the lines of its run, two consecutive lines
\* are in one block exactly if they are mergeable, and no line gives no block.
C19_BlocksPartitionLines ==
    pc = "blocks_done" =>
        LET lines == call.lines
            blocks == out.value
        IN  /\ ~out.raised
            /\ MergedBefore(blocks, Len(blocks)) = Len(lines)
            /\ lines = <<>> => blocks = <<>>
            /\ \A k \in 1..Len(blocks) :
                  /\ blocks[k].meta["merged_lines"] >= 1
                  /\ blocks[k].content =
                        Join(<<" ">>,
                             [m \in 1..blocks[k].meta["merged_lines"] |->
                                 Strip(lines[MergedBefore(blocks, k - 1) + m].content)])
            /\ \A i \in 1..(Len(lines) - 1) :
                  (BlockOf(blocks, i) = BlockOf(blocks, i + 1))
                      <=> Mergeable(lines[i], lines[i + 1])

\* three lines: the second joins the first at gap 8 and a size 0.25 apart,
\* the third, 0.5 apart from the second, is a block of one line
C19_Witness ==
    /\ pc = "blocks_done"
    /\ Len(call.lines) = 3
    /\ call.lines[2].bbox[2] - call.lines[1].bbox[4] = 8
    /\ call.lines[1].font_size = <<10, 1>>
    /\ call.lines[2].font_size = <<41, 4>>
    /\ call.lines[3].font_size = <<21, 2>>
    /\ call.lines[1].font_name = call.lines[3].font_name
    /\ Len(out.value) = 2
    /\ out.value[1].meta["merged_lines"] = 2
    /\ out.value[2].meta["merged_lines"] = 1

(***************************************************************************)
(* Claims on flatten-to-text of pipeline output (SpecFlatten).             *)
(***************************************************************************)
Flattened == pc \in {"flatten_doc_done", "flatten_page_done"}

\* C21: on a document whose table elements were produced by
\* CamelotExtractor._create_elements, ParsedPdf.stringify and
\* PdfPage.stringify with include_tables=True return a string and raise no
\* exception.
C21_FlattenIsTotal ==
    (Flattened /\ call.include_tables) => ~out.raised

(***************************************************************************)
(* Claims on the line text of _extract_page_text (SpecWords).              *)
(***************************************************************************)
\* sorted(line_words, key=lambda w: w["x0"])
LeftToRight(line_words) ==
    PySorted(line_words, [k \in 1..Len(line_words) |-> <<Fin(line_words[k].x0)>>])

\* C22: every line _extract_page_text produces has the words of its line
\* group concatenated in ascending x0 order, also when the tops of the
\* words of one line differ within the vertical tolerance.
C22_WordsLeftToRight ==
    pc = "words_done" =>
        [i \in 1..Len(out.line_elements) |-> out.line_elements[i].content]
          = SelectSeq([k \in 1..Len(LineGroups(call.words)) |->
                          LineText(LeftToRight(LineGroups(call.words)[k]))],
                      LAMBDA t : t # <<>>)

====
